---- MODULE Spec2Model ----
(***************************************************************************)
(* Duplicate File Detector (src-tauri): the session controller AppState    *)
(* (state.rs) and the start_scan / cancel_scan command handlers            *)
(* (commands.rs) that drive the pipeline scan_directories -> group_by_size *)
(* -> hash_files_parallel -> find_duplicates.                              *)
(*                                                                         *)
(* Every step of a handler that reads or writes the shared AppState is one *)
(* atomic action (the fields are SeqCst atomics and an RwLock); the steps  *)
(* of concurrently running command invocations interleave freely, as the   *)
(* Tauri runtime runs each invocation on its own task.                     *)
(***************************************************************************)
EXTENDS Integers, Sequences, FiniteSets, TLC

(***************************************************************************)
(* Bounds of the model.                                                    *)
(***************************************************************************)
\* number of start_scan invocations issued by the frontend
NumScans == 2
\* number of cancel_scan invocations issued by the frontend
NumCancels == 1
\* group_by_size is given up to MaxFiles files of sizes 1..MaxSize
MaxFiles == 5
MaxSize == 2
\* find_duplicates is given up to MaxPairs files with MaxDigests digests
MaxPairs == 4
MaxDigests == 2
\* wasted_space is given groups of up to MaxGroupFiles files
MaxGroupFiles == 3
\* a filter is given up to MaxExtensions extensions to include and to
\* exclude, and a minimum size of up to MaxMinSize
MaxExtensions == 1
MaxMinSize == 1
\* delete_files is given up to MaxDeletes paths
MaxDeletes == 3
\* hash_files_parallel is given up to MaxHashed files
MaxHashed == 3
\* wall clock (ms since the epoch) when the process starts
StartClock == 100
\* the wall clock is observed at StartClock plus up to MaxTicks times TickMs
TickMs == 100
MaxTicks == 1

Scans == 1..NumScans
Cancels == 1..NumCancels

(***************************************************************************)
(* Program constants.                                                      *)
(***************************************************************************)
PROGRESS_RATE_LIMIT_MS == 100

SCAN_PROGRESS == "scan_progress"
SCAN_FINISHED == "scan_finished"
SCAN_ERROR == "scan_error"
SCAN_CANCELLED == "scan_cancelled"

\* Option<String>::None, and the absent value of a local not yet assigned
None == <<>>

(***************************************************************************)
(* The file system the scans run against: five root paths that can be      *)
(* named in ScanOptions.root_paths.  Root "a" holds two files of equal     *)
(* size and content and one of another size.  Root "b" holds one file of   *)
(* a third size, an entry the walk cannot read and a file whose metadata   *)
(* cannot be read.  Root "c" holds three files of equal size, two of them  *)
(* with the same content.  Root "d" holds two pairs of files of equal      *)
(* size, all of different content when the walk reads their metadata; one  *)
(* of them is then overwritten with a copy of a file of the other pair     *)
(* before it is hashed.  Root "e" holds one file and the directory "e/n",   *)
(* which holds one file of the same size and other content and can be      *)
(* named as a root itself.  Root "missing" does not exist.                 *)
(***************************************************************************)
RootPaths == {"a", "b", "c", "d", "e", "e/n", "missing"}

PathExists(root) == root \in {"a", "b", "c", "d", "e", "e/n"}

\* what WalkDir::new(root).into_iter() yields, in walk order: Ok(entry) for
\* a directory, a file, or a file whose metadata() fails, and Err(e)
WalkDir(root) ==
    CASE root = "a" -> << [kind |-> "dir", path |-> "a", size |-> 0],
                          [kind |-> "file", path |-> "a/f1", size |-> 1],
                          [kind |-> "file", path |-> "a/f2", size |-> 1],
                          [kind |-> "file", path |-> "a/f3", size |-> 2] >>
      [] root = "b" -> << [kind |-> "dir", path |-> "b", size |-> 0],
                          [kind |-> "file", path |-> "b/f4", size |-> 3],
                          [kind |-> "walk_error", path |-> "b/locked", size |-> 0],
                          [kind |-> "no_metadata", path |-> "b/gone", size |-> 0] >>
      [] root = "c" -> << [kind |-> "dir", path |-> "c", size |-> 0],
                          [kind |-> "file", path |-> "c/g1", size |-> 4],
                          [kind |-> "file", path |-> "c/g2", size |-> 4],
                          [kind |-> "file", path |-> "c/g3", size |-> 4] >>
      [] root = "d" -> << [kind |-> "dir", path |-> "d", size |-> 0],
                          [kind |-> "file", path |-> "d/h1", size |-> 5],
                          [kind |-> "file", path |-> "d/h2", size |-> 5],
                          [kind |-> "file", path |-> "d/h3", size |-> 6],
                          [kind |-> "file", path |-> "d/h4", size |-> 6] >>
      [] root = "e" -> << [kind |-> "dir", path |-> "e", size |-> 0],
                          [kind |-> "file", path |-> "e/k1", size |-> 7],
                          [kind |-> "dir", path |-> "e/n", size |-> 0],
                          [kind |-> "file", path |-> "e/n/k2", size |-> 7] >>
      [] root = "e/n" -> << [kind |-> "dir", path |-> "e/n", size |-> 0],
                            [kind |-> "file", path |-> "e/n/k2", size |-> 7] >>
      [] OTHER -> << >>

\* the bytes of a file when it is hashed, as an abstract content name
ContentOf(path) ==
    CASE path = "a/f1" -> "hello"
      [] path = "a/f2" -> "hello"
      [] path = "a/f3" -> "world!"
      [] path = "c/g1" -> "data"
      [] path = "c/g2" -> "data"
      [] path = "c/g3" -> "date"
      [] path = "d/h1" -> "apple"
      [] path = "d/h2" -> "angle"
      [] path = "d/h3" -> "apple"
      [] path = "d/h4" -> "banana"
      [] path = "e/k1" -> "melon"
      [] path = "e/n/k2" -> "lemon"
      [] OTHER -> "other"

\* the files written to between the walk and the hashing
Overwritten == {"d/h3"}

\* ScanOptions.root_paths values the frontend passes to start_scan
OptionSet == { <<"a">>, <<"a", "missing">> }

VARIABLES
    is_scanning,        \* AppState.is_scanning
    cancel_requested,   \* AppState.cancel_requested
    current_scan_id,    \* AppState.current_scan_id
    clock,              \* the last value SystemTime::now() returned, in ms
    pc,                 \* position of each start_scan invocation
    options,            \* its ScanOptions.root_paths
    scan_id,            \* its local scan_id
    site,               \* the finish_scan call site it is executing
    scan_output,        \* its local scan_output: the files and the errors
    files_to_hash,      \* its local files_to_hash
    hash_results,       \* the outcomes hash_files_parallel has produced so far
    last_emit,          \* its rate limiter's last_emit
    worker,             \* the workers of its hash_files_parallel that are
                        \* inside the progress callback, by item
    events,             \* the events it has emitted on the AppHandle
    result,             \* its local result, the assembled ScanResult
    ret,                \* its return value
    cpc,                \* position of each cancel_scan invocation
    cresult,            \* its return value
    call,               \* the library function called on its own, with its
                        \* arguments
    reply,              \* what that call returned
    disk,               \* the files delete_files can remove
    scan_log,           \* the scan ids start_scan has logged
    tested,             \* the invocation that held the session when each
                        \* cancel_scan loaded is_scanning
    read,               \* what the last read of the AppState by another
                        \* thread returned
    progress_count,     \* the counter a callback of hash_files_parallel
                        \* stores the count it is given into
    callback_counts     \* the counts hash_files_parallel has passed to its
                        \* callback, in the order of the calls

session == <<is_scanning, cancel_requested, current_scan_id>>
locals == <<options, scan_id, site, scan_output, files_to_hash, hash_results,
            last_emit, events, result, ret>>
cancels == <<cpc, cresult>>
library == <<call, reply, disk>>
observed == <<scan_log, tested>>
probes == <<read, progress_count, callback_counts>>
vars == <<is_scanning, cancel_requested, current_scan_id, clock, pc, options,
          scan_id, site, scan_output, files_to_hash, hash_results, last_emit,
          worker, events, result, ret, cpc, cresult, call, reply, disk,
          scan_log, tested, read, progress_count, callback_counts>>


(***************************************************************************)
(* Pure functions of the pipeline.                                         *)
(***************************************************************************)
\* a compare_exchange replaced by a plain store: it never fails
compare_exchange_blind(current, expected) == TRUE

\* AtomicBool::compare_exchange(expected, new).is_ok()
compare_exchange(current, expected) == current = expected

\* generate_scan_id: format!("scan_{}", timestamp)
generate_scan_id(timestamp) == <<"scan", timestamp>>

\* the code of ErrorResponse::from(ScannerError), carried by String::from
ErrorCodes == {"IO_ERROR", "PATH_NOT_FOUND", "PERMISSION_DENIED", "CANCELLED",
               "INVALID_PATH", "SCAN_IN_PROGRESS", "NO_ACTIVE_SCAN",
               "DELETE_FAILED", "TRASH_FAILED", "FILE_DISAPPEARED"}

Err(code) == [status |-> "Err", code |-> code]

\* ScannerError::is_recoverable, of the error with the code code
is_recoverable(code) ==
    code \in {"PERMISSION_DENIED", "FILE_DISAPPEARED", "INVALID_PATH"}
Ok(value) == [status |-> "Ok", value |-> value]
Pending == [status |-> "Pending"]

\* ScanOutput::new()
ScanOutputNew == [files |-> << >>, errors |-> << >>]

\* FileEntry::new(path, size, modified); the modification time is not modelled
FileEntryNew(path, size) == [path |-> path, size |-> size]

\* ScanError::new(path, message)
ScanErrorNew(path, message) == [path |-> path, message |-> message]

\* the body of scan_directory's loop for one item of the walk: process_entry
\* for an Ok(entry), whose error is logged and dropped, and add_error for an
\* Err(e); no filter is configured
process_entry(entry, output) ==
    CASE entry.kind = "file" ->
             [output EXCEPT !.files = Append(@, FileEntryNew(entry.path, entry.size))]
      [] entry.kind = "walk_error" ->
             [output EXCEPT !.errors = Append(@, ScanErrorNew(entry.path, "walkdir"))]
      [] OTHER -> output

\* scan_directory: the walk of one root, its items processed in walk order
RECURSIVE scan_directory(_, _)
scan_directory(entries, output) ==
    IF entries = << >> THEN output
    ELSE scan_directory(Tail(entries), process_entry(Head(entries), output))

\* the loop of scan_directories over the roots, all writing to one output
RECURSIVE WalkAll(_, _)
WalkAll(root_paths, output) ==
    IF root_paths = << >> THEN output
    ELSE WalkAll(Tail(root_paths), scan_directory(WalkDir(Head(root_paths)), output))

\* a scan_directories that validates only the first root path
scan_directories_first_root(root_paths) ==
    IF root_paths # << >> /\ ~PathExists(Head(root_paths))
    THEN Err("PATH_NOT_FOUND")
    ELSE Ok(WalkAll(root_paths, ScanOutputNew))

\* scan_directories: every root is validated before any root is walked
scan_directories(root_paths) ==
    IF \E i \in DOMAIN root_paths : ~PathExists(root_paths[i])
    THEN Err("PATH_NOT_FOUND")
    ELSE Ok(WalkAll(root_paths, ScanOutputNew))

\* a group_by_size without the retain: it keeps the groups of one file
group_by_size_all(files) ==
    LET sizes == {files[i].size : i \in DOMAIN files}
    IN  [s \in sizes |-> SelectSeq(files, LAMBDA f : f.size = s)]

\* group_by_size: files grouped by size in input order, singletons removed
group_by_size(files) ==
    LET sizes == {files[i].size : i \in DOMAIN files}
        all == [s \in sizes |-> SelectSeq(files, LAMBDA f : f.size = s)]
    IN  [s \in {k \in sizes : Len(all[k]) > 1} |-> all[s]]

\* the orders in which a HashMap may iterate over the key set keys
IterationOrders(keys) ==
    {o \in [1..Cardinality(keys) -> keys] : \A k \in keys : \E i \in DOMAIN o : o[i] = k}

\* into_values().flatten().collect() under the iteration order order
RECURSIVE Flatten(_, _)
Flatten(groups, order) ==
    IF order = << >> THEN << >>
    ELSE groups[Head(order)] \o Flatten(groups, Tail(order))

\* the MD5 digest of a content, lowercase hex
Md5(content) == <<"md5", content>>

\* a hash_file that does not read the file
hash_file_unread(path, readable) ==
    IF readable THEN Ok(Md5("")) ELSE Err("FILE_DISAPPEARED")

\* hash_file: the digest, or the error of a file that cannot be opened
hash_file(path, readable) ==
    IF readable THEN Ok(Md5(ContentOf(path))) ELSE Err("FILE_DISAPPEARED")

\* a u64 is held as its four 16-bit limbs, the most significant first
LimbBase == 65536

\* the u64 of a natural number below 2^31, and the natural number of a
\* u64 below 2^31
U64(n) == <<0, 0, n \div LimbBase, n % LimbBase>>
AsNat(v) == v[3] * LimbBase + v[4]

U64Max == <<LimbBase - 1, LimbBase - 1, LimbBase - 1, LimbBase - 1>>

\* the product of the natural number k (below 2^15) and the u64 v, in
\* full: five limbs, of which the first is what does not fit in 64 bits
FullMul(k, v) ==
    LET p4 == k * v[4]
        p3 == k * v[3] + p4 \div LimbBase
        p2 == k * v[2] + p3 \div LimbBase
        p1 == k * v[1] + p2 \div LimbBase
    IN  <<p1 \div LimbBase, p1 % LimbBase, p2 % LimbBase, p3 % LimbBase,
          p4 % LimbBase>>

\* a panic of the calling thread
Panic == [status |-> "Panic"]

\* k as u64 * v: the product modulo 2^64, or a panic ("attempt to multiply
\* with overflow") in a build with overflow checks
MulU64(k, v, overflow_checks) ==
    LET product == FullMul(k, v)
    IN  IF Head(product) # 0 /\ overflow_checks THEN Panic
        ELSE Ok(Tail(product))

\* DuplicateGroup::wasted_space of a group of len files whose size is the
\* u64 size
wasted_space_u64(len, size, overflow_checks) ==
    IF len <= 1 THEN Ok(U64(0)) ELSE MulU64(len - 1, size, overflow_checks)

\* DuplicateGroup::wasted_space of a group of the scanned file system, whose
\* sizes the model holds as natural numbers
wasted_space(group) ==
    AsNat(wasted_space_u64(Len(group.files), U64(group.size), FALSE).value)

\* Vec::sort_by_key(|g| Reverse(g.wasted_space())): a stable sort
RECURSIVE InsertByWasted(_, _)
InsertByWasted(sorted, g) ==
    IF sorted = << >> THEN <<g>>
    ELSE IF wasted_space(Head(sorted)) >= wasted_space(g)
         THEN <<Head(sorted)>> \o InsertByWasted(Tail(sorted), g)
         ELSE <<g>> \o sorted

RECURSIVE sort_by_key(_)
sort_by_key(groups) ==
    IF groups = << >> THEN << >>
    ELSE InsertByWasted(sort_by_key(SubSeq(groups, 1, Len(groups) - 1)),
                        groups[Len(groups)])

\* extract_successful_hashes: the (file, hash) pairs of the Ok outcomes
extract_successful_hashes(results) ==
    SelectSeq(results, LAMBDA r : r.hash.status = "Ok")

\* an extract_hash_errors that reports nothing
extract_hash_errors_none(results) == << >>

\* extract_hash_errors: the outcomes that failed, as ScanErrors
extract_hash_errors(results) ==
    LET failed == SelectSeq(results, LAMBDA r : r.hash.status = "Err")
    IN  [i \in DOMAIN failed |->
            ScanErrorNew(failed[i].file.path, failed[i].hash.code)]

\* the digests carried by the pairs
HashKeys(pairs) == {pairs[i].hash.value : i \in DOMAIN pairs}

\* a find_duplicates that keeps the groups of one file
find_duplicates_all(pairs, order) ==
    LET filesOf(h) ==
            LET sel == SelectSeq(pairs, LAMBDA r : r.hash.value = h)
            IN  [i \in DOMAIN sel |-> sel[i].file]
        groups == [i \in DOMAIN order |->
                      [hash |-> order[i],
                       size |-> filesOf(order[i])[1].size,
                       files |-> filesOf(order[i])]]
    IN  sort_by_key(groups)

\* a find_duplicates without the sort
find_duplicates_unsorted(pairs, order) ==
    LET filesOf(h) ==
            LET sel == SelectSeq(pairs, LAMBDA r : r.hash.value = h)
            IN  [i \in DOMAIN sel |-> sel[i].file]
        kept == SelectSeq(order, LAMBDA h : Len(filesOf(h)) > 1)
    IN  [i \in DOMAIN kept |->
            [hash |-> kept[i],
             size |-> filesOf(kept[i])[1].size,
             files |-> filesOf(kept[i])]]

\* find_duplicates, when the HashMap iterates its digests in the order order
find_duplicates(pairs, order) ==
    LET filesOf(h) ==
            LET sel == SelectSeq(pairs, LAMBDA r : r.hash.value = h)
            IN  [i \in DOMAIN sel |-> sel[i].file]
        kept == SelectSeq(order, LAMBDA h : Len(filesOf(h)) > 1)
        groups == [i \in DOMAIN kept |->
                      [hash |-> kept[i],
                       size |-> filesOf(kept[i])[1].size,
                       files |-> filesOf(kept[i])]]
    IN  sort_by_key(groups)

\* ScanResult::new: the sum of the groups' file counts
RECURSIVE SumFileCounts(_)
SumFileCounts(groups) ==
    IF groups = << >> THEN 0
    ELSE Len(Head(groups).files) + SumFileCounts(Tail(groups))

\* ScanResult::new: the sum of the groups' wasted space
RECURSIVE SumWastedSpace(_)
SumWastedSpace(groups) ==
    IF groups = << >> THEN 0
    ELSE wasted_space(Head(groups)) + SumWastedSpace(Tail(groups))

\* calculate_total_wasted_space
RECURSIVE calculate_total_wasted_space(_)
calculate_total_wasted_space(groups) ==
    IF groups = << >> THEN 0
    ELSE wasted_space(Head(groups)) + calculate_total_wasted_space(Tail(groups))

\* calculate_total_duplicates
RECURSIVE calculate_total_duplicates(_)
calculate_total_duplicates(groups) ==
    IF groups = << >> THEN 0
    ELSE Len(Head(groups).files) + calculate_total_duplicates(Tail(groups))

\* a ScanResult::new that counts the groups, not their files
ScanResultNewCountingGroups(duplicate_groups, total_files_scanned, errors) ==
    [duplicate_groups |-> duplicate_groups,
     total_files_scanned |-> total_files_scanned,
     total_duplicates_found |-> Len(duplicate_groups),
     total_wasted_space |-> SumWastedSpace(duplicate_groups),
     errors |-> errors]

\* ScanResult::new (duration_ms is not modelled)
ScanResultNew(duplicate_groups, total_files_scanned, errors) ==
    [duplicate_groups |-> duplicate_groups,
     total_files_scanned |-> total_files_scanned,
     total_duplicates_found |-> SumFileCounts(duplicate_groups),
     total_wasted_space |-> SumWastedSpace(duplicate_groups),
     errors |-> errors]

\* ScanProgress events are recorded by their phase
Progress(phase) == <<SCAN_PROGRESS, phase>>
Signal(name) == <<name>>


(***************************************************************************)
(* The state after tauri::Builder::manage(AppState::new()): no command has *)
(* been invoked yet.                                                       *)
(***************************************************************************)
(***************************************************************************)
(* FileFilter.  A string is the sequence of its characters; a file name    *)
(* is the sequence of the characters of an OsStr, in which "0xFF" stands   *)
(* for a byte that is not valid UTF-8.                                     *)
(***************************************************************************)
\* Option::Some(value) and Option::None of a filter or option field
Some(value) == [some |-> TRUE, value |-> value]
Nothing == [some |-> FALSE]

\* char::to_lowercase, on the letters of the file names and extensions
Lower(ch) ==
    CASE ch = "J" -> "j"
      [] ch = "P" -> "p"
      [] OTHER -> ch

\* str::to_lowercase
to_lowercase(str) == [i \in DOMAIN str |-> Lower(str[i])]

\* str::trim_start_matches('.'): every leading dot is removed
RECURSIVE trim_start_matches(_)
trim_start_matches(str) ==
    IF str # << >> /\ Head(str) = "." THEN trim_start_matches(Tail(str))
    ELSE str

\* OsStr::to_str: None unless the bytes are valid UTF-8
to_str(os_str) ==
    IF \E i \in DOMAIN os_str : os_str[i] = "0xFF" THEN Nothing
    ELSE Some(os_str)

\* Path::extension of a path whose file name is file_name: the part after
\* the last dot, unless there is no dot or nothing stands before it
extension(file_name) ==
    LET dots == {i \in DOMAIN file_name : file_name[i] = "."}
        last == CHOOSE i \in dots : \A j \in dots : j <= i
    IN  IF file_name = <<".", ".">> \/ dots = {} THEN Nothing
        ELSE IF last = 1 THEN Nothing
        ELSE Some(SubSeq(file_name, last + 1, Len(file_name)))

\* FileFilter::new
FileFilterNew ==
    [min_size |-> Nothing, include_extensions |-> Nothing,
     exclude_extensions |-> Nothing]

\* FileFilter::with_min_size
with_min_size(filter, size) == [filter EXCEPT !.min_size = Some(size)]

\* the extensions collected as they were given
Verbatim(extensions) == {extensions[i] : i \in DOMAIN extensions}

\* the HashSet the extensions are collected into
Normalised(extensions) ==
    {trim_start_matches(to_lowercase(extensions[i])) : i \in DOMAIN extensions}

\* FileFilter::with_include_extensions
with_include_extensions(filter, extensions) ==
    IF extensions = << >>
    THEN [filter EXCEPT !.include_extensions = Nothing]
    ELSE [filter EXCEPT !.include_extensions = Some(Normalised(extensions))]

\* FileFilter::with_exclude_extensions
with_exclude_extensions(filter, extensions) ==
    IF extensions = << >>
    THEN [filter EXCEPT !.exclude_extensions = Nothing]
    ELSE [filter EXCEPT !.exclude_extensions = Some(Normalised(extensions))]

\* a matches that tests the include set before the exclude set
matches_include_first(filter, path, size) ==
    LET os_ext == extension(path)
        str_ext == IF os_ext.some THEN to_str(os_ext.value) ELSE Nothing
        ext == IF str_ext.some THEN Some(to_lowercase(str_ext.value))
               ELSE Nothing
    IN  IF filter.min_size.some /\ size < filter.min_size.value THEN FALSE
        ELSE IF filter.include_extensions.some
        THEN IF ext.some
             THEN ext.value \in filter.include_extensions.value
             ELSE << >> \in filter.include_extensions.value
        ELSE IF /\ filter.exclude_extensions.some
                /\ ext.some
                /\ ext.value \in filter.exclude_extensions.value THEN FALSE
        ELSE TRUE

\* FileFilter::matches
matches(filter, path, size) ==
    LET os_ext == extension(path)
        str_ext == IF os_ext.some THEN to_str(os_ext.value) ELSE Nothing
        ext == IF str_ext.some THEN Some(to_lowercase(str_ext.value))
               ELSE Nothing
    IN  IF filter.min_size.some /\ size < filter.min_size.value THEN FALSE
        ELSE IF /\ filter.exclude_extensions.some
                /\ ext.some
                /\ ext.value \in filter.exclude_extensions.value THEN FALSE
        ELSE IF filter.include_extensions.some
        THEN IF ext.some
             THEN ext.value \in filter.include_extensions.value
             ELSE << >> \in filter.include_extensions.value
        ELSE TRUE

\* FileFilter::has_restrictions
has_restrictions(filter) ==
    \/ filter.min_size.some
    \/ filter.include_extensions.some
    \/ filter.exclude_extensions.some

\* build_filter: the FileFilter of the ScanOptions fields that are set
build_filter(opts) ==
    LET sized == IF opts.min_file_size.some
                 THEN with_min_size(FileFilterNew, opts.min_file_size.value)
                 ELSE FileFilterNew
        included == IF opts.include_extensions.some
                    THEN with_include_extensions(sized, opts.include_extensions.value)
                    ELSE sized
    IN  IF opts.exclude_extensions.some
        THEN with_exclude_extensions(included, opts.exclude_extensions.value)
        ELSE included

(***************************************************************************)
(* delete_files.  The disk gives each path one of "file" (it can be        *)
(* removed), "locked" (it exists and cannot be removed) and "absent".      *)
(***************************************************************************)
\* trash::delete(path) or std::fs::remove_file(path), with the error mapped
\* to its string: removing a file takes it off the disk
remove(path, use_trash, on_disk) ==
    LET api == IF use_trash THEN "trash::delete" ELSE "remove_file"
    IN  CASE on_disk[path] = "file" -> Ok(<< >>)
          [] on_disk[path] = "locked" -> [status |-> "Err", code |-> <<api, "permission denied">>]
          [] OTHER -> [status |-> "Err", code |-> <<api, "not found">>]

\* DeleteError::new(path, reason)
DeleteErrorNew(path, reason) == [path |-> path, reason |-> reason]

\* DeleteResult::new(deleted, failed)
DeleteResultNew(deleted, failed) == [deleted |-> deleted, failed |-> failed]

\* a loop over file_paths that stops at the first path it fails to delete
RECURSIVE delete_loop_until_failure(_, _, _, _, _)
delete_loop_until_failure(file_paths, use_trash, on_disk, deleted, failed) ==
    IF file_paths = << >> \/ failed # << >>
    THEN [disk |-> on_disk, result |-> DeleteResultNew(deleted, failed)]
    ELSE LET path_str == Head(file_paths)
             removed == remove(path_str, use_trash, on_disk)
         IN  IF removed.status = "Ok"
             THEN delete_loop_until_failure(Tail(file_paths), use_trash,
                      [on_disk EXCEPT ![path_str] = "absent"],
                      Append(deleted, path_str), failed)
             ELSE delete_loop_until_failure(Tail(file_paths), use_trash, on_disk,
                      deleted, Append(failed, DeleteErrorNew(path_str, removed.code)))

\* the loop of delete_files over file_paths: the disk it leaves and the
\* DeleteResult it has built
RECURSIVE delete_loop(_, _, _, _, _)
delete_loop(file_paths, use_trash, on_disk, deleted, failed) ==
    IF file_paths = << >>
    THEN [disk |-> on_disk, result |-> DeleteResultNew(deleted, failed)]
    ELSE LET path_str == Head(file_paths)
             removed == remove(path_str, use_trash, on_disk)
         IN  IF removed.status = "Ok"
             THEN delete_loop(Tail(file_paths), use_trash,
                              [on_disk EXCEPT ![path_str] = "absent"],
                              Append(deleted, path_str), failed)
             ELSE delete_loop(Tail(file_paths), use_trash, on_disk, deleted,
                              Append(failed, DeleteErrorNew(path_str, removed.code)))

\* no library function is being examined on its own
NoCall ==
    /\ call = None
    /\ reply = Pending
    /\ disk = {}

\* nothing has been logged, no cancel_scan has loaded is_scanning, no other
\* thread has read the AppState and no callback has been called
NothingObserved ==
    /\ scan_log = << >>
    /\ tested = [c \in Cancels |-> 0]
    /\ read = None
    /\ progress_count = 0
    /\ callback_counts = << >>

\* the session and the command invocations: nothing is running
Launched ==
    /\ is_scanning = FALSE
    /\ cancel_requested = FALSE
    /\ current_scan_id = None
    /\ clock = StartClock
    /\ pc = [p \in Scans |-> "idle"]
    /\ options = [p \in Scans |-> << >>]
    /\ scan_id = [p \in Scans |-> None]
    /\ site = [p \in Scans |-> "none"]
    /\ scan_output = [p \in Scans |-> ScanOutputNew]
    /\ files_to_hash = [p \in Scans |-> << >>]
    /\ hash_results = [p \in Scans |-> << >>]
    /\ last_emit = [p \in Scans |-> 0]
    /\ worker = [p \in Scans |-> << >>]
    /\ events = [p \in Scans |-> << >>]
    /\ result = [p \in Scans |-> Pending]
    /\ ret = [p \in Scans |-> Pending]
    /\ cpc = [c \in Cancels |-> "idle"]
    /\ cresult = [c \in Cancels |-> Pending]

Init ==
    /\ Launched
    /\ NoCall
    /\ NothingObserved

\* the values SystemTime::now() can return: time has passed, or not, since
\* the clock was last read
Now ==
    {t \in clock..(StartClock + MaxTicks * TickMs) : (t - StartClock) % TickMs = 0}

Emit(p, event) == events' = [events EXCEPT ![p] = Append(@, event)]

(***************************************************************************)
(* start_scan, up to the return of try_start_scan.                         *)
(***************************************************************************)
\* try_start_scan: the compare_exchange succeeds
TryStartScanAcquire(p) ==
    /\ compare_exchange(is_scanning, FALSE)
    /\ is_scanning' = TRUE
    /\ pc' = [pc EXCEPT ![p] = "try_start_write_id"]
    /\ UNCHANGED <<cancel_requested, current_scan_id, site, events, ret>>

\* a rejected start_scan that calls finish_scan like the other error exits
StartScanRejectedFinishes(p) ==
    /\ ~compare_exchange(is_scanning, FALSE)
    /\ is_scanning' = FALSE
    /\ cancel_requested' = FALSE
    /\ current_scan_id' = None
    /\ pc' = [pc EXCEPT ![p] = "returned"]
    /\ ret' = [ret EXCEPT ![p] = Err("SCAN_IN_PROGRESS")]
    /\ UNCHANGED <<site, events>>

\* try_start_scan returns None: start_scan fails with ScanInProgress
StartScanRejected(p) ==
    /\ ~compare_exchange(is_scanning, FALSE)
    /\ pc' = [pc EXCEPT ![p] = "returned"]
    /\ ret' = [ret EXCEPT ![p] = Err("SCAN_IN_PROGRESS")]
    /\ UNCHANGED <<session, site, events>>

\* the frontend invokes start_scan(options); the invocations are numbered in
\* the order in which they reach try_start_scan
StartScan(p, opts) ==
    /\ pc[p] = "idle"
    /\ \A q \in Scans : q < p => pc[q] # "idle"
    /\ \/ /\ TryStartScanAcquire(p)
          /\ options' = [options EXCEPT ![p] = opts]
       \/ /\ StartScanRejected(p)
          /\ UNCHANGED options
    /\ UNCHANGED <<library, probes, observed, clock, scan_id, scan_output, files_to_hash, hash_results,
                   last_emit, result, cancels, worker>>

\* try_start_scan: generate the scan id and store it
TryStartScanWriteId(p) ==
    /\ pc[p] = "try_start_write_id"
    /\ \E now \in Now :
         /\ clock' = now
         /\ scan_id' = [scan_id EXCEPT ![p] = generate_scan_id(now)]
         /\ current_scan_id' = generate_scan_id(now)
    /\ pc' = [pc EXCEPT ![p] = "try_start_clear_cancel"]
    /\ UNCHANGED <<library, probes, observed, is_scanning, cancel_requested, options, site,
                   scan_output, files_to_hash, hash_results, last_emit, events, result, ret, cancels, worker>>

\* try_start_scan: clear the cancellation flag and return Some(scan_id),
\* which start_scan logs and never uses again
TryStartScanClearCancel(p) ==
    /\ pc[p] = "try_start_clear_cancel"
    /\ cancel_requested' = FALSE
    /\ pc' = [pc EXCEPT ![p] = "counting"]
    /\ scan_id' = [scan_id EXCEPT ![p] = None]
    /\ UNCHANGED <<library, probes, is_scanning, current_scan_id, clock, options, site,
                   scan_output, files_to_hash, hash_results, last_emit,
                   events, result, ret, cancels, worker>>


(***************************************************************************)
(* start_scan: the phases and the cancellation checkpoints.                *)
(***************************************************************************)
\* the position of the k-th check_cancel call and of the code after it
CheckPc(k) == CASE k = 1 -> "check_1" [] k = 2 -> "check_2" [] k = 3 -> "check_3"
AfterCheckPc(k) == CASE k = 1 -> "grouping" [] k = 2 -> "hashing" [] k = 3 -> "finalizing"
CancelSite(k) == CASE k = 1 -> "cancel_1" [] k = 2 -> "cancel_2" [] k = 3 -> "cancel_3"

\* a traversal error exit that forgets finish_scan
ScanDirectoriesNoFinish(p) ==
    /\ pc[p] = "counting"
    /\ LET out == scan_directories(options[p])
       IN  IF out.status = "Ok"
           THEN /\ scan_output' = [scan_output EXCEPT ![p] = out.value]
                /\ pc' = [pc EXCEPT ![p] = CheckPc(1)]
                /\ UNCHANGED site
           ELSE /\ site' = [site EXCEPT ![p] = "traversal_error"]
                /\ pc' = [pc EXCEPT ![p] = "emit_error"]
                /\ UNCHANGED scan_output
    /\ Emit(p, Progress("Counting"))
    /\ UNCHANGED <<library, probes, observed, session, clock, options, scan_id, files_to_hash,
                   hash_results, last_emit, result, ret, cancels, worker>>

\* Phase 1: emit the Counting progress and run scan_directories
ScanDirectories(p) ==
    /\ pc[p] = "counting"
    /\ LET out == scan_directories(options[p])
       IN  IF out.status = "Ok"
           THEN /\ scan_output' = [scan_output EXCEPT ![p] = out.value]
                /\ pc' = [pc EXCEPT ![p] = CheckPc(1)]
                /\ UNCHANGED site
           ELSE /\ site' = [site EXCEPT ![p] = "traversal_error"]
                /\ pc' = [pc EXCEPT ![p] = "finish_1"]
                /\ UNCHANGED scan_output
    /\ Emit(p, Progress("Counting"))
    /\ UNCHANGED <<library, probes, observed, session, clock, options, scan_id, files_to_hash,
                   hash_results, last_emit, result, ret, cancels, worker>>

\* the values of the phases go out of use: the traversal output, the files to
\* hash, their outcomes and the rate limiter of the progress callback
DropPhaseValues(p) ==
    /\ scan_output' = [scan_output EXCEPT ![p] = ScanOutputNew]
    /\ files_to_hash' = [files_to_hash EXCEPT ![p] = << >>]
    /\ hash_results' = [hash_results EXCEPT ![p] = << >>]
    /\ last_emit' = [last_emit EXCEPT ![p] = 0]

\* a start_scan without the check_cancel after size grouping
CheckCancelSkipSecond(p, k) ==
    /\ pc[p] = CheckPc(k)
    /\ IF cancel_requested /\ k # 2
       THEN /\ Emit(p, Signal(SCAN_CANCELLED))
            /\ site' = [site EXCEPT ![p] = CancelSite(k)]
            /\ pc' = [pc EXCEPT ![p] = "finish_1"]
            /\ DropPhaseValues(p)
       ELSE /\ pc' = [pc EXCEPT ![p] = AfterCheckPc(k)]
            /\ UNCHANGED <<events, site, scan_output, files_to_hash,
                           hash_results, last_emit>>
    /\ UNCHANGED <<library, probes, observed, session, clock, options, scan_id, result, ret, cancels, worker>>

\* check_cancel at checkpoint k: read the flag; if set, emit scan_cancelled
\* and go on to finish_scan and the return, which use none of the values the
\* phases have computed, else go on to the next phase
CheckCancel(p, k) ==
    /\ pc[p] = CheckPc(k)
    /\ IF cancel_requested
       THEN /\ Emit(p, Signal(SCAN_CANCELLED))
            /\ site' = [site EXCEPT ![p] = CancelSite(k)]
            /\ pc' = [pc EXCEPT ![p] = "finish_1"]
            /\ DropPhaseValues(p)
       ELSE /\ pc' = [pc EXCEPT ![p] = AfterCheckPc(k)]
            /\ UNCHANGED <<events, site, scan_output, files_to_hash,
                           hash_results, last_emit>>
    /\ UNCHANGED <<library, probes, observed, session, clock, options, scan_id, result, ret, cancels, worker>>

\* Phase 2: emit the Grouping progress, group by size and flatten the groups
GroupBySize(p) ==
    /\ pc[p] = "grouping"
    /\ LET size_groups == group_by_size(scan_output[p].files)
       IN  \E order \in IterationOrders(DOMAIN size_groups) :
             LET files == Flatten(size_groups, order)
             IN  /\ files_to_hash' = [files_to_hash EXCEPT ![p] = files]
                 /\ hash_results' = [hash_results EXCEPT ![p] =
                                        [i \in DOMAIN files |-> Pending]]
    /\ Emit(p, Progress("Grouping"))
    /\ pc' = [pc EXCEPT ![p] = CheckPc(2)]
    /\ UNCHANGED <<library, probes, observed, session, clock, options, scan_id, site, scan_output,
                   last_emit, result, ret, cancels, worker>>

\* the items of files_to_hash that no worker has taken yet
Unhashed(p) == {i \in DOMAIN hash_results[p] : hash_results[p][i] = Pending}

\* the progress callback start_scan passes to hash_files_parallel (its
\* store to hashed_count, which nothing reads, is left out)
ProgressCallback(p, count, now) ==
    IF now - last_emit[p] >= PROGRESS_RATE_LIMIT_MS
    THEN /\ last_emit' = [last_emit EXCEPT ![p] = now]
         /\ IF ~cancel_requested
            THEN Emit(p, Progress("Hashing"))
            ELSE UNCHANGED events
    ELSE UNCHANGED <<last_emit, events>>

\* Phase 3, one item of hash_files_parallel: a worker hashes file i, which
\* can be read or not, bumps the progress counter and invokes the callback
\* with the new count
HashFile(p, i, readable) ==
    /\ pc[p] = "hashing"
    /\ i \in Unhashed(p)
    /\ hash_results' = [hash_results EXCEPT ![p][i] =
                            [file |-> files_to_hash[p][i],
                             hash |-> hash_file(files_to_hash[p][i].path, readable)]]
    /\ \E now \in Now :
         /\ clock' = now
         /\ ProgressCallback(p, Len(hash_results[p]) - Cardinality(Unhashed(p)) + 1, now)
    /\ UNCHANGED <<library, probes, observed, session, pc, options, scan_id, site, scan_output,
                   files_to_hash, result, ret, cancels, worker>>

(***************************************************************************)
(* The same item of hash_files_parallel taken apart into the steps of its  *)
(* worker: the map closure up to the fetch_add, then the progress callback *)
(* one access to shared state at a time.  worker[p][i] holds the locals of *)
(* the worker of item i while it is inside the callback.                   *)
(***************************************************************************)
\* the worker of item i has entered the callback and is at position at
WorkerAt(p, i, at) == i \in DOMAIN worker[p] /\ worker[p][i].at = at

\* the worker of item i leaves the callback
WorkerDone(p, i) ==
    worker' = [worker EXCEPT ![p] = [j \in DOMAIN @ \ {i} |-> @[j]]]

\* a map closure that builds every HashResult around the first file
WorkerHashFirstFile(p, i, readable) ==
    /\ pc[p] = "hashing"
    /\ i \in Unhashed(p)
    /\ hash_results' = [hash_results EXCEPT ![p][i] =
                            [file |-> files_to_hash[p][1],
                             hash |-> hash_file(files_to_hash[p][1].path, readable)]]
    /\ worker' = [worker EXCEPT ![p] =
                     [j \in DOMAIN @ \cup {i} |->
                         IF j = i
                         THEN [at |-> "now", now |-> 0, last |-> 0,
                               count |-> Len(hash_results[p])
                                           - Cardinality(Unhashed(p)) + 1]
                         ELSE @[j]]]
    /\ UNCHANGED <<library, probes, observed, session, clock, pc, options, scan_id, site, scan_output,
                   files_to_hash, last_emit, events, result, ret, cancels>>

\* a map closure that passes on what fetch_add returns, the count before
\* the addition
WorkerHashStaleCount(p, i, readable) ==
    /\ pc[p] = "hashing"
    /\ i \in Unhashed(p)
    /\ hash_results' = [hash_results EXCEPT ![p][i] =
                            [file |-> files_to_hash[p][i],
                             hash |-> hash_file(files_to_hash[p][i].path, readable)]]
    /\ worker' = [worker EXCEPT ![p] =
                     [j \in DOMAIN @ \cup {i} |->
                         IF j = i
                         THEN [at |-> "now", now |-> 0, last |-> 0,
                               count |-> Len(hash_results[p])
                                           - Cardinality(Unhashed(p))]
                         ELSE @[j]]]
    /\ UNCHANGED <<library, probes, observed, session, clock, pc, options, scan_id, site, scan_output,
                   files_to_hash, last_emit, events, result, ret, cancels>>

\* the map closure: hash_file, then progress_counter.fetch_add(1) + 1, which
\* is the number of outcomes determined so far
WorkerHash(p, i, readable) ==
    /\ pc[p] = "hashing"
    /\ i \in Unhashed(p)
    /\ hash_results' = [hash_results EXCEPT ![p][i] =
                            [file |-> files_to_hash[p][i],
                             hash |-> hash_file(files_to_hash[p][i].path, readable)]]
    /\ worker' = [worker EXCEPT ![p] =
                     [j \in DOMAIN @ \cup {i} |->
                         IF j = i
                         THEN [at |-> "now", now |-> 0, last |-> 0,
                               count |-> Len(hash_results[p])
                                           - Cardinality(Unhashed(p)) + 1]
                         ELSE @[j]]]
    /\ UNCHANGED <<library, probes, observed, session, clock, pc, options, scan_id, site, scan_output,
                   files_to_hash, last_emit, events, result, ret, cancels>>

\* the callback: let now = SystemTime::now()
CallbackNow(p, i) ==
    /\ WorkerAt(p, i, "now")
    /\ \E now \in Now :
         /\ clock' = now
         /\ worker' = [worker EXCEPT ![p][i].now = now, ![p][i].at = "load"]
    /\ UNCHANGED <<library, probes, observed, session, pc, locals, cancels>>

\* the u64 test now - last >= PROGRESS_RATE_LIMIT_MS: with last above now the
\* difference wraps to more than the limit
RateLimitElapsed(now, last) ==
    IF last > now THEN TRUE ELSE now - last >= PROGRESS_RATE_LIMIT_MS

\* the callback: let last = last_emit.load(), and the rate limit test
CallbackLoad(p, i) ==
    /\ WorkerAt(p, i, "load")
    /\ IF RateLimitElapsed(worker[p][i].now, last_emit[p])
       THEN worker' = [worker EXCEPT ![p][i].last = last_emit[p],
                                     ![p][i].at = "store"]
       ELSE WorkerDone(p, i)
    /\ UNCHANGED <<library, probes, observed, session, clock, pc, locals, cancels>>

\* the callback: last_emit.store(now)
CallbackStore(p, i) ==
    /\ WorkerAt(p, i, "store")
    /\ last_emit' = [last_emit EXCEPT ![p] = worker[p][i].now]
    /\ worker' = [worker EXCEPT ![p][i].at = "emit"]
    /\ UNCHANGED <<library, probes, observed, session, clock, pc, options, scan_id, site, scan_output,
                   files_to_hash, hash_results, events, result, ret, cancels>>

\* the callback: emit the Hashing progress unless cancellation is requested
CallbackEmit(p, i) ==
    /\ WorkerAt(p, i, "emit")
    /\ IF ~cancel_requested
       THEN Emit(p, Progress("Hashing"))
       ELSE UNCHANGED events
    /\ WorkerDone(p, i)
    /\ UNCHANGED <<library, probes, observed, session, clock, pc, options, scan_id, site, scan_output,
                   files_to_hash, hash_results, last_emit, result, ret,
                   cancels>>

\* a hash_files_parallel that returns without waiting for the callbacks
HashFilesJoinEarly(p) ==
    /\ pc[p] = "hashing"
    /\ Unhashed(p) = {}
    /\ pc' = [pc EXCEPT ![p] = CheckPc(3)]
    /\ UNCHANGED <<library, probes, observed, session, clock, locals, cancels, worker>>

\* hash_files_parallel returns once every item has an outcome and every
\* worker has left the callback, which owns last_emit and is dropped
HashFilesJoin(p) ==
    /\ pc[p] = "hashing"
    /\ Unhashed(p) = {}
    /\ DOMAIN worker[p] = {}
    /\ pc' = [pc EXCEPT ![p] = CheckPc(3)]
    /\ last_emit' = [last_emit EXCEPT ![p] = 0]
    /\ UNCHANGED <<library, probes, observed, session, clock, options, scan_id, site, scan_output,
                   files_to_hash, hash_results, events, result, ret, cancels, worker>>

\* Phase 4: collect the errors, find the duplicates, assemble the ScanResult,
\* emit the Finalizing and Complete progress and scan_finished
Finalize(p) ==
    /\ pc[p] = "finalizing"
    /\ LET all_errors == scan_output[p].errors \o extract_hash_errors(hash_results[p])
           successful_hashes == extract_successful_hashes(hash_results[p])
       IN  \E order \in IterationOrders(HashKeys(successful_hashes)) :
             result' = [result EXCEPT ![p] =
                 ScanResultNew(find_duplicates(successful_hashes, order),
                               Len(scan_output[p].files), all_errors)]
    /\ events' = [events EXCEPT ![p] =
                     @ \o <<Progress("Finalizing"), Progress("Complete"),
                            Signal(SCAN_FINISHED)>>]
    /\ site' = [site EXCEPT ![p] = "complete"]
    /\ pc' = [pc EXCEPT ![p] = "finish_1"]
    /\ DropPhaseValues(p)
    /\ UNCHANGED <<library, probes, observed, session, clock, options, scan_id, ret, cancels, worker>>

(***************************************************************************)
(* finish_scan, called at every exit of start_scan after the acquisition,  *)
(* and the return that follows it.                                         *)
(***************************************************************************)
\* finish_scan: is_scanning.store(false)
FinishScanStoreScanning(p) ==
    /\ pc[p] = "finish_1"
    /\ is_scanning' = FALSE
    /\ pc' = [pc EXCEPT ![p] = "finish_2"]
    /\ UNCHANGED <<library, probes, observed, cancel_requested, current_scan_id, clock, locals, cancels, worker>>

\* finish_scan: cancel_requested.store(false)
FinishScanStoreCancel(p) ==
    /\ pc[p] = "finish_2"
    /\ cancel_requested' = FALSE
    /\ pc' = [pc EXCEPT ![p] = "finish_3"]
    /\ UNCHANGED <<library, probes, observed, is_scanning, current_scan_id, clock, locals, cancels, worker>>

\* what start_scan returns after the finish_scan call at a site
ReturnValue(p) ==
    CASE site[p] = "traversal_error" -> Err(scan_directories(options[p]).code)
      [] site[p] = "complete" -> Ok(result[p])
      [] OTHER -> Err("CANCELLED")

\* start_scan returns: its locals go out of scope, and the events of a
\* returned invocation are no longer tracked
Return(p) ==
    /\ ret' = [ret EXCEPT ![p] = ReturnValue(p)]
    /\ pc' = [pc EXCEPT ![p] = "returned"]
    /\ options' = [options EXCEPT ![p] = << >>]
    /\ scan_id' = [scan_id EXCEPT ![p] = None]
    /\ site' = [site EXCEPT ![p] = "none"]
    /\ DropPhaseValues(p)
    /\ result' = [result EXCEPT ![p] = Pending]
    /\ events' = [events EXCEPT ![p] = << >>]

\* finish_scan: *current_scan_id.write() = None; start_scan then returns,
\* except after a traversal error, where it has scan_error to emit first
FinishScanWriteId(p) ==
    /\ pc[p] = "finish_3"
    /\ current_scan_id' = None
    /\ IF site[p] = "traversal_error"
       THEN /\ pc' = [pc EXCEPT ![p] = "emit_error"]
            /\ UNCHANGED locals
       ELSE Return(p)
    /\ UNCHANGED <<library, probes, observed, is_scanning, cancel_requested, clock, cancels, worker>>

\* a traversal error exit that emits nothing
EmitScanErrorSkipped(p) ==
    /\ pc[p] = "emit_error"
    /\ pc' = [pc EXCEPT ![p] = "return_error"]
    /\ UNCHANGED <<library, probes, observed, session, clock, locals, cancels, worker>>

\* the traversal error exit: emit scan_error
EmitScanError(p) ==
    /\ pc[p] = "emit_error"
    /\ Emit(p, Signal(SCAN_ERROR))
    /\ pc' = [pc EXCEPT ![p] = "return_error"]
    /\ UNCHANGED <<library, probes, observed, session, clock, options, scan_id, site, scan_output,
                   files_to_hash, hash_results, last_emit, result, ret,
                   cancels, worker>>

\* the traversal error exit: return Err(e.into())
ReturnError(p) ==
    /\ pc[p] = "return_error"
    /\ Return(p)
    /\ UNCHANGED <<library, probes, observed, session, clock, cancels, worker>>

(***************************************************************************)
(* cancel_scan.                                                            *)
(***************************************************************************)
\* a request_cancel that does not test is_scanning
RequestCancelLoadUnchecked(c) ==
    /\ cpc[c] = "idle"
    /\ \A d \in Cancels : d < c => cpc[d] # "idle"
    /\ cpc' = [cpc EXCEPT ![c] = "store_cancel"]
    /\ UNCHANGED <<library, probes, cresult, session, clock, pc, locals, worker>>

\* request_cancel: load is_scanning; when false, cancel_scan returns the
\* NoActiveScan error (the invocations are numbered in the order of this load)
RequestCancelLoad(c) ==
    /\ cpc[c] = "idle"
    /\ \A d \in Cancels : d < c => cpc[d] # "idle"
    /\ IF is_scanning
       THEN /\ cpc' = [cpc EXCEPT ![c] = "store_cancel"]
            /\ UNCHANGED cresult
       ELSE /\ cpc' = [cpc EXCEPT ![c] = "returned"]
            /\ cresult' = [cresult EXCEPT ![c] = Err("NO_ACTIVE_SCAN")]
    /\ UNCHANGED <<library, probes, session, clock, pc, locals, worker>>

\* request_cancel: cancel_requested.store(true); cancel_scan returns Ok(())
RequestCancelStore(c) ==
    /\ cpc[c] = "store_cancel"
    /\ cancel_requested' = TRUE
    /\ cpc' = [cpc EXCEPT ![c] = "returned"]
    /\ cresult' = [cresult EXCEPT ![c] = Ok(<< >>)]
    /\ UNCHANGED <<library, probes, observed, is_scanning, current_scan_id, clock, pc, locals, worker>>

\* the concurrent command invocations of one run of the application, on a
\* file system whose files stay readable
Next ==
    \/ \E p \in Scans :
         \/ \E opts \in OptionSet : StartScan(p, opts)
         \/ TryStartScanWriteId(p)
         \/ TryStartScanClearCancel(p) /\ UNCHANGED observed
         \/ ScanDirectories(p)
         \/ \E k \in 1..3 : CheckCancel(p, k)
         \/ GroupBySize(p)
         \/ \E i \in DOMAIN files_to_hash[p] : HashFile(p, i, TRUE)
         \/ HashFilesJoin(p)
         \/ Finalize(p)
         \/ FinishScanStoreScanning(p)
         \/ FinishScanStoreCancel(p)
         \/ FinishScanWriteId(p)
         \/ EmitScanError(p)
         \/ ReturnError(p)
    \/ \E c \in Cancels :
         \/ RequestCancelLoad(c) /\ UNCHANGED observed
         \/ RequestCancelStore(c)

Spec == Init /\ [][Next]_vars

(***************************************************************************)
(* One start_scan invocation on its own, with cancel_scan beside it: the   *)
(* roots it can be given include the one with unreadable entries, a file   *)
(* can fail to hash, and the workers of hash_files_parallel interleave     *)
(* inside the progress callback.                                           *)
(***************************************************************************)
PipelineOptionSet ==
    { <<"a">>, <<"b">>, <<"a", "b">>, <<"a", "missing">>, <<"missing", "b">> }

PipelineNext ==
    \/ \E p \in {1} :
         \/ \E opts \in PipelineOptionSet : StartScan(p, opts)
         \/ TryStartScanWriteId(p)
         \/ TryStartScanClearCancel(p) /\ UNCHANGED observed
         \/ ScanDirectories(p)
         \/ \E k \in 1..3 : CheckCancel(p, k)
         \/ GroupBySize(p)
         \/ \E i \in DOMAIN files_to_hash[p] :
              \/ \E readable \in BOOLEAN : WorkerHash(p, i, readable)
              \/ CallbackNow(p, i)
              \/ CallbackLoad(p, i)
              \/ CallbackStore(p, i)
              \/ CallbackEmit(p, i)
         \/ HashFilesJoin(p)
         \/ Finalize(p)
         \/ FinishScanStoreScanning(p)
         \/ FinishScanStoreCancel(p)
         \/ FinishScanWriteId(p)
         \/ EmitScanError(p)
         \/ ReturnError(p)
    \/ \E c \in Cancels :
         \/ RequestCancelLoad(c) /\ UNCHANGED observed
         \/ RequestCancelStore(c)

PipelineSpec == Init /\ [][PipelineNext]_vars

(***************************************************************************)
(* group_by_size on its own: an invocation that is about to run the        *)
(* Grouping phase on any list of files the traversal may have returned.    *)
(***************************************************************************)
\* the state of the session and of the other invocations while invocation 1
\* is at position at, having emitted the events emitted
InitAt(at, emitted) ==
    /\ NoCall
    /\ NothingObserved
    /\ is_scanning = TRUE
    /\ cancel_requested = FALSE
    /\ current_scan_id = generate_scan_id(StartClock)
    /\ clock = StartClock
    /\ pc = [p \in Scans |-> IF p = 1 THEN at ELSE "idle"]
    /\ options = [p \in Scans |-> IF p = 1 THEN <<"a">> ELSE << >>]
    /\ scan_id = [p \in Scans |-> None]
    /\ site = [p \in Scans |-> "none"]
    /\ last_emit = [p \in Scans |-> 0]
    /\ worker = [p \in Scans |-> << >>]
    /\ events = [p \in Scans |-> IF p = 1 THEN emitted ELSE << >>]
    /\ result = [p \in Scans |-> Pending]
    /\ ret = [p \in Scans |-> Pending]
    /\ cpc = [c \in Cancels |-> "idle"]
    /\ cresult = [c \in Cancels |-> Pending]

\* the lists of up to MaxFiles files, file i named by its position
FileLists ==
    LET sizes == UNION {[1..n -> 1..MaxSize] : n \in 0..MaxFiles}
    IN  {[i \in DOMAIN sz |-> FileEntryNew(<<"file", i>>, sz[i])] : sz \in sizes}

GroupingInit ==
    /\ InitAt("grouping", <<Progress("Counting")>>)
    /\ \E files \in FileLists :
         scan_output = [p \in Scans |->
                           IF p = 1 THEN [files |-> files, errors |-> << >>]
                           ELSE ScanOutputNew]
    /\ files_to_hash = [p \in Scans |-> << >>]
    /\ hash_results = [p \in Scans |-> << >>]

GroupingNext == \E p \in {1} : GroupBySize(p)

GroupingSpec == GroupingInit /\ [][GroupingNext]_vars

(***************************************************************************)
(* find_duplicates on its own: an invocation that is about to run the      *)
(* Finalizing phase on any list of successfully hashed files.              *)
(***************************************************************************)
\* the lists of up to MaxPairs outcomes, file i named by its position, of
\* any size and with any digest
PairLists ==
    LET choices == UNION {[1..n -> (1..MaxSize) \X (1..MaxDigests)] : n \in 0..MaxPairs}
    IN  {[i \in DOMAIN c |->
             [file |-> FileEntryNew(<<"file", i>>, c[i][1]),
              hash |-> Ok(Md5(c[i][2]))]] : c \in choices}

DuplicatesInit ==
    /\ \E results \in PairLists :
         LET files == [i \in DOMAIN results |-> results[i].file]
         IN  /\ hash_results = [p \in Scans |-> IF p = 1 THEN results ELSE << >>]
             /\ files_to_hash = [p \in Scans |-> IF p = 1 THEN files ELSE << >>]
             /\ scan_output = [p \in Scans |->
                                  IF p = 1 THEN [files |-> files, errors |-> << >>]
                                  ELSE ScanOutputNew]
             /\ InitAt("finalizing",
                       IF results = << >>
                       THEN <<Progress("Counting"), Progress("Grouping")>>
                       ELSE <<Progress("Counting"), Progress("Grouping"),
                              Progress("Hashing")>>)

DuplicatesNext == \E p \in {1} : Finalize(p)

DuplicatesSpec == DuplicatesInit /\ [][DuplicatesNext]_vars

(***************************************************************************)
(* The library functions on their own: one call of one of them, on         *)
(* arguments of its parameter types.                                       *)
(***************************************************************************)
\* DuplicateGroup values: up to MaxGroupFiles files, and sizes from both ends
\* and the middle of the u64 range
U64Samples ==
    {U64(0), U64(1), U64(1000), <<0, 0, 1, 0>>, <<0, 1, 0, 0>>,
     <<16384, 0, 0, 0>>, <<32768, 0, 0, 0>>, <<LimbBase - 1, 0, 0, 1>>, U64Max}

DuplicateGroups ==
    {[hash |-> Md5(1), size |-> size,
      files |-> [i \in 1..n |-> FileEntryNew(<<"file", i>>, size)]] :
        size \in U64Samples, n \in 0..MaxGroupFiles}

\* file names with and without an extension, and extensions as a user may
\* type them
FileNames ==
    { <<"j">>, <<".", "j">>, <<"j", ".">>, <<"j", ".", "j">>,
      <<"j", ".", "J">>, <<"p", ".", "j">>, <<"j", ".", "p">>,
      <<"j", ".", "P">>, <<"j", ".", "j", ".", "p">>, <<".", ".", "j">>,
      <<"j", ".", "j", "p">>, <<"j", ".", "0xFF">>, <<"p", ".", "J", "0xFF">> }

RawExtensions ==
    { << >>, <<"j">>, <<".", "J">>, <<"p">> }

ExtensionLists == UNION {[1..n -> RawExtensions] : n \in 0..MaxExtensions}

\* the ScanOptions fields build_filter reads
FilterOptions ==
    [min_file_size : {Nothing} \cup {Some(n) : n \in 1..MaxMinSize},
     include_extensions : {Nothing} \cup {Some(l) : l \in ExtensionLists},
     exclude_extensions : {Nothing} \cup {Some(l) : l \in ExtensionLists}]

\* the paths delete_files is asked to delete, and the disks it can find
DeletePaths == {"x", "y"}
PathLists == UNION {[1..n -> DeletePaths] : n \in 0..MaxDeletes}
Disks == [DeletePaths -> {"file", "locked", "absent"}]

LibraryCalls ==
    {[fn |-> "wasted_space", group |-> g] : g \in DuplicateGroups}
    \cup {[fn |-> "matches", options |-> o, path |-> n, size |-> sz] :
              o \in FilterOptions, n \in FileNames, sz \in 0..MaxMinSize}
    \cup {[fn |-> "delete_files", file_paths |-> l, use_trash |-> t] :
              l \in PathLists, t \in BOOLEAN}
    \cup {[fn |-> "is_recoverable", error |-> code] : code \in ErrorCodes}

LibraryInit ==
    /\ Launched
    /\ NothingObserved
    /\ call \in LibraryCalls
    /\ reply = Pending
    /\ IF call.fn = "delete_files" THEN disk \in Disks ELSE disk = {}

\* group.wasted_space(), in a build with or without overflow checks
WastedSpace ==
    /\ call.fn = "wasted_space"
    /\ reply = Pending
    /\ \E overflow_checks \in BOOLEAN :
         reply' = wasted_space_u64(Len(call.group.files), call.group.size,
                                   overflow_checks)
    /\ UNCHANGED <<session, clock, pc, locals, cancels, worker, observed, probes,
                   call, disk>>

\* build_filter(options).matches(path, size), as process_entry calls it
Matches ==
    /\ call.fn = "matches"
    /\ reply = Pending
    /\ reply' = Ok(matches(build_filter(call.options), call.path, call.size))
    /\ UNCHANGED <<session, clock, pc, locals, cancels, worker, observed, probes,
                   call, disk>>

\* delete_files(file_paths, use_trash)
DeleteFiles ==
    /\ call.fn = "delete_files"
    /\ reply = Pending
    /\ LET done == delete_loop(call.file_paths, call.use_trash, disk, << >>, << >>)
       IN  /\ disk' = done.disk
           /\ reply' = Ok(done.result)
    /\ UNCHANGED <<session, clock, pc, locals, cancels, worker, observed, probes, call>>

\* error.is_recoverable()
IsRecoverable ==
    /\ call.fn = "is_recoverable"
    /\ reply = Pending
    /\ reply' = Ok(is_recoverable(call.error))
    /\ UNCHANGED <<session, clock, pc, locals, cancels, worker, observed, probes,
                   call, disk>>

LibraryNext ==
    \/ WastedSpace
    \/ Matches
    \/ DeleteFiles
    \/ IsRecoverable

LibrarySpec == LibraryInit /\ [][LibraryNext]_vars

(***************************************************************************)
(* One start_scan invocation from end to end, never cancelled, on roots    *)
(* whose entries can all be read.                                          *)
(***************************************************************************)
EndToEndOptionSet == { <<"a">>, <<"c">>, <<"a", "c">>, <<"d">> }

EndToEndNext ==
    \E p \in {1} :
         \/ \E opts \in EndToEndOptionSet : StartScan(p, opts)
         \/ TryStartScanWriteId(p)
         \/ TryStartScanClearCancel(p) /\ UNCHANGED observed
         \/ ScanDirectories(p)
         \/ \E k \in 1..3 : CheckCancel(p, k)
         \/ GroupBySize(p)
         \/ \E i \in DOMAIN files_to_hash[p] : HashFile(p, i, TRUE)
         \/ HashFilesJoin(p)
         \/ Finalize(p)
         \/ FinishScanStoreScanning(p)
         \/ FinishScanStoreCancel(p)
         \/ FinishScanWriteId(p)

EndToEndSpec == Init /\ [][EndToEndNext]_vars

TypeOK ==
    /\ is_scanning \in BOOLEAN
    /\ cancel_requested \in BOOLEAN
    /\ clock \in StartClock..(StartClock + MaxTicks * TickMs)


(***************************************************************************)
(* Properties.                                                             *)
(***************************************************************************)
\* invocation p holds the session: its compare_exchange has succeeded and
\* its finish_scan has not yet stored is_scanning = false
InFlight(p) ==
    pc[p] \in {"try_start_write_id", "try_start_clear_cancel", "counting",
               "check_1", "grouping", "check_2", "hashing", "check_3",
               "finalizing", "finish_1"}

\* invocation p is in one of the phases Counting, Grouping, Hashing, Finalizing
InPhase(p) ==
    pc[p] \in {"counting", "check_1", "grouping", "check_2", "hashing",
               "check_3", "finalizing"}

\* no start_scan invocation is running
Quiescent == \A p \in Scans : pc[p] \in {"idle", "returned"}

HasMissingRoot(root_paths) ==
    \E i \in DOMAIN root_paths : ~PathExists(root_paths[i])

Last(seq) == seq[Len(seq)]

\* C1: single-flight. At most one invocation holds the session at any time,
\* is_scanning is true while one does, and a try_start_scan issued while
\* is_scanning is true returns None (start_scan returns ScanInProgress).
C1_SingleFlight ==
    /\ [](Cardinality({p \in Scans : InFlight(p)}) <= 1)
    /\ []((\E p \in Scans : InFlight(p)) => is_scanning)
    /\ [][\A p \in Scans :
            (pc[p] = "idle" /\ pc'[p] # "idle" /\ is_scanning)
                => (pc'[p] = "returned" /\ ret'[p] = Err("SCAN_IN_PROGRESS"))]_vars

\* one invocation holds the session and another has been turned away
C1_Witness ==
    \E p, q \in Scans :
        InFlight(p) /\ pc[q] = "returned" /\ ret[q] = Err("SCAN_IN_PROGRESS")

\* C2: request_cancel returns true and stores the flag exactly when it reads
\* is_scanning = true; when it reads false it changes nothing and cancel_scan
\* returns the NoActiveScan error.
C2_RequestCancel ==
    [][\A c \in Cancels :
         /\ (cpc[c] = "idle" /\ cpc'[c] # "idle" /\ is_scanning)
                => (cpc'[c] = "store_cancel" /\ cresult'[c] = Pending)
         /\ (cpc[c] = "idle" /\ cpc'[c] # "idle" /\ ~is_scanning)
                => /\ cpc'[c] = "returned"
                   /\ cresult'[c] = Err("NO_ACTIVE_SCAN")
                   /\ UNCHANGED session
         /\ (cpc[c] = "store_cancel" /\ cpc'[c] # "store_cancel")
                => /\ cancel_requested'
                   /\ cresult'[c] = Ok(<< >>)
                   /\ UNCHANGED <<is_scanning, current_scan_id>>
         /\ cresult'[c].status = "Ok" => cpc'[c] = "returned"]_vars

\* a cancel_scan has returned ok during a scan and the flag is set
C2_Witness ==
    \E c \in Cancels, p \in Scans :
        cresult[c].status = "Ok" /\ cancel_requested /\ InPhase(p)

\* C3 (as claimed): when finish_scan completes the session state is empty.
C3_FinishLeavesEmpty ==
    [][\A p \in Scans :
         (pc[p] = "finish_3" /\ pc'[p] # "finish_3")
             => /\ ~is_scanning'
                /\ ~cancel_requested'
                /\ current_scan_id' = None]_vars

\* C4: every exit path of a start_scan that acquired the session runs
\* finish_scan: whenever no invocation is running the session is Idle (not
\* scanning, no session id), so a later start_scan can acquire it.
C4_EveryExitFinishes ==
    Quiescent => (~is_scanning /\ current_scan_id = None)

\* every invocation has returned, at least one as cancelled
C4_Witness ==
    /\ \A p \in Scans : pc[p] = "returned"
    /\ \E p \in Scans : ret[p] = Err("CANCELLED")

\* C5: a start_scan that finds the session taken returns ScanInProgress in
\* that very step, with the session state, its events and its pipeline
\* locals untouched.
C5_RejectedStartIsInert ==
    [][\A p \in Scans :
         (pc[p] = "idle" /\ pc'[p] # "idle" /\ is_scanning)
             => /\ pc'[p] = "returned"
                /\ ret'[p] = Err("SCAN_IN_PROGRESS")
                /\ UNCHANGED <<session, events, site, scan_output,
                               files_to_hash, hash_results, result>>]_vars

\* an invocation was turned away while another one is hashing
C5_Witness ==
    \E p, q \in Scans :
        /\ pc[p] = "hashing"
        /\ pc[q] = "returned" /\ ret[q] = Err("SCAN_IN_PROGRESS")

\* C6: a traversal failure takes the error exit: the invocation has run no
\* later phase and has no ScanResult, its events are the Counting progress
\* and then scan_error, the session is released before scan_error is
\* emitted, and it returns PATH_NOT_FOUND.
C6_TraversalFailure ==
    /\ [](\A p \in Scans :
            /\ (HasMissingRoot(options[p])
                    /\ pc[p] \notin {"try_start_write_id",
                                     "try_start_clear_cancel", "counting"})
                   => site[p] = "traversal_error"
            /\ site[p] = "traversal_error"
                   => /\ pc[p] \in {"finish_1", "finish_2", "finish_3",
                                    "emit_error", "return_error"}
                      /\ scan_output[p] = ScanOutputNew
                      /\ files_to_hash[p] = << >>
                      /\ hash_results[p] = << >>
                      /\ result[p] = Pending
                      /\ events[p] = IF pc[p] = "return_error"
                                     THEN <<Progress("Counting"), Signal(SCAN_ERROR)>>
                                     ELSE <<Progress("Counting")>>
            /\ (pc[p] \in {"emit_error", "return_error"}
                    /\ \A q \in Scans \ {p} : ~InFlight(q))
                   => ~is_scanning)
    /\ [][\A p \in Scans :
            (pc[p] = "return_error" /\ pc'[p] # "return_error")
                => (pc'[p] = "returned" /\ ret'[p] = Err("PATH_NOT_FOUND"))]_vars

\* an invocation whose traversal failed is about to return
C6_Witness == \E p \in Scans : pc[p] = "return_error"

\* the events an invocation may have emitted when it leaves at checkpoint k
EventsBeforeCheck(p, k) ==
    CASE k = 1 -> events[p] = <<Progress("Counting")>>
      [] k = 2 -> events[p] = <<Progress("Counting"), Progress("Grouping")>>
      [] k = 3 -> /\ Len(events[p]) >= 2
                  /\ SubSeq(events[p], 1, 2)
                        = <<Progress("Counting"), Progress("Grouping")>>
                  /\ \A i \in 3..Len(events[p]) : events[p][i] = Progress("Hashing")

\* C7: at each of the three checkpoints a set flag makes the invocation emit
\* scan_cancelled and go on to finish_scan; from there it runs no later
\* phase, has no ScanResult, and returns CANCELLED, a code no failure uses.
C7_Checkpoints ==
    /\ [][\A p \in Scans : \A k \in 1..3 :
            (pc[p] = CheckPc(k) /\ pc'[p] # CheckPc(k) /\ cancel_requested)
                => /\ pc'[p] = "finish_1"
                   /\ site'[p] = CancelSite(k)
                   /\ events'[p] = Append(events[p], Signal(SCAN_CANCELLED))
                   /\ EventsBeforeCheck(p, k)]_vars
    /\ [](\A p \in Scans : \A k \in 1..3 :
            site[p] = CancelSite(k)
                => /\ pc[p] \in {"finish_1", "finish_2", "finish_3"}
                   /\ Last(events[p]) = Signal(SCAN_CANCELLED)
                   /\ result[p] = Pending
                   /\ (k = 1 => files_to_hash[p] = << >>)
                   /\ (k <= 2 => \A i \in DOMAIN hash_results[p] :
                                    hash_results[p][i] = Pending))
    /\ [][\A p \in Scans :
            (site[p] \in {CancelSite(1), CancelSite(2), CancelSite(3)}
                    /\ pc'[p] = "returned")
                => /\ ret'[p] = Err("CANCELLED")
                   /\ ret'[p].code \notin ErrorCodes \ {"CANCELLED"}]_vars

\* an invocation has left at the second checkpoint and is finishing
C7_Witness == \E p \in Scans : site[p] = CancelSite(2) /\ pc[p] = "finish_2"

\* C8 (as claimed): an invocation that is in one of its phases (Counting,
\* Grouping, Hashing, Finalizing) while the flag is set does not go on to
\* assemble a ScanResult and emit scan_finished.
C8_CancelFromAnyPhase ==
    [][\A p \in Scans :
         (InPhase(p) /\ cancel_requested) => site'[p] # "complete"]_vars

\* C9 (as claimed): a flag set between the return of try_start_scan and the
\* first checkpoint is still set when the checkpoint reads it, whatever the
\* previous invocation's finish_scan is doing.
C9_CancelBeforeTraversalEnds ==
    [][\A p \in Scans :
         (pc[p] \in {"counting", "check_1"} /\ cancel_requested)
             => /\ cancel_requested'
                /\ pc'[p] \in {"counting", "check_1", "finish_1"}]_vars

\* C10 (as claimed): while the flag is set, hash_files_parallel starts no
\* further candidate file.
C10_HasherStopsOnCancel ==
    [][\A p \in Scans :
         (pc[p] = "hashing" /\ cancel_requested)
             => hash_results'[p] = hash_results[p]]_vars

\* the phases of the ScanProgress events invocation p has emitted, in order
ProgressPhases(p) ==
    LET progress == SelectSeq(events[p], LAMBDA e : e[1] = SCAN_PROGRESS)
    IN  [i \in DOMAIN progress |-> progress[i][2]]

\* the pairs of phases that may follow each other in the progress events
PhaseFollows ==
    { <<"Counting", "Grouping">>, <<"Grouping", "Hashing">>,
      <<"Hashing", "Hashing">>, <<"Grouping", "Finalizing">>,
      <<"Hashing", "Finalizing">>, <<"Finalizing", "Complete">> }

\* C11: the progress events of one scan come in the order Counting,
\* Grouping, zero or more Hashing, Finalizing, Complete; a file has an
\* outcome only once the Grouping phase is over and the invocation is in
\* its hashing phase or past it; and a worker is inside the progress
\* callback only during the hashing phase.
C11_PhaseSequence ==
    \A p \in Scans :
        LET phases == ProgressPhases(p)
        IN  /\ phases # << >> => phases[1] = "Counting"
            /\ \A i \in 1..(Len(phases) - 1) :
                   <<phases[i], phases[i + 1]>> \in PhaseFollows
            /\ (\E i \in DOMAIN hash_results[p] : hash_results[p][i] # Pending)
                   => /\ pc[p] \in {"hashing", "check_3", "finalizing"}
                      /\ phases = <<"Counting", "Grouping">>
                            \o [i \in 1..(Len(phases) - 2) |-> "Hashing"]
            /\ DOMAIN worker[p] # {} => pc[p] = "hashing"

\* a scan has emitted all its progress events, two of them for Hashing
C11_Witness ==
    \E p \in Scans :
        ProgressPhases(p) = <<"Counting", "Grouping", "Hashing", "Hashing",
                              "Finalizing", "Complete">>

\* the workers of invocation p that have passed the rate limit test
Passed(p) == {i \in DOMAIN worker[p] : worker[p][i].at \in {"store", "emit"}}

\* the number of Hashing progress events invocation p has emitted
HashingEvents(p) ==
    Len(SelectSeq(ProgressPhases(p), LAMBDA phase : phase = "Hashing"))

\* C12 (as claimed): the rate limit is atomic. No two workers have both
\* passed the test with times less than PROGRESS_RATE_LIMIT_MS apart, and
\* the Hashing events emitted are at most one per interval elapsed.
C12_RateLimitAtomic ==
    \A p \in Scans :
        /\ \A i, j \in Passed(p) :
               \/ i = j
               \/ worker[p][i].now - worker[p][j].now >= PROGRESS_RATE_LIMIT_MS
               \/ worker[p][j].now - worker[p][i].now >= PROGRESS_RATE_LIMIT_MS
        /\ HashingEvents(p)
               <= 1 + (clock - StartClock) \div PROGRESS_RATE_LIMIT_MS

\* C13: once hash_files_parallel has returned there is one HashResult for
\* each input file, at the position of that file and carrying it unchanged,
\* with either a digest or an error, and no worker is still running; the
\* step that returns from it leaves the results as the workers made them.
C13_OneResultPerFile ==
    /\ [](\A p \in Scans :
            pc[p] \in {"check_3", "finalizing"}
                => /\ DOMAIN worker[p] = {}
                   /\ Len(hash_results[p]) = Len(files_to_hash[p])
                   /\ \A i \in DOMAIN files_to_hash[p] :
                        /\ hash_results[p][i] # Pending
                        /\ hash_results[p][i].file = files_to_hash[p][i]
                        /\ hash_results[p][i].hash.status \in {"Ok", "Err"})
    /\ [][\A p \in Scans :
            (pc[p] = "hashing" /\ pc'[p] # "hashing")
                => (pc'[p] = "check_3" /\ hash_results'[p] = hash_results[p])]_vars

\* hash_files_parallel has returned two results, one a digest and one an error
C13_Witness ==
    \E p \in Scans :
        /\ pc[p] = "check_3"
        /\ Len(hash_results[p]) = 2
        /\ hash_results[p][1].hash.status = "Err"
        /\ hash_results[p][2].hash.status = "Ok"

\* the paths of the errors, and of the files of the duplicate groups
ErrorPaths(errors) == {errors[k].path : k \in DOMAIN errors}
GroupedFiles(groups) ==
    UNION {{groups[g].files[k] : k \in DOMAIN groups[g].files} : g \in DOMAIN groups}

\* C14: a file that fails to hash does not abort the scan.  The step that
\* assembles the ScanResult puts the traversal errors first and then one
\* error per failed file, every candidate file is either hashed or named
\* by an error, never both, only hashed files are in the duplicate groups,
\* and the invocation then returns that ScanResult.
C14_HashFailureIsAggregated ==
    /\ [][\A p \in Scans :
            (pc[p] = "finalizing" /\ pc'[p] # "finalizing")
                => LET traversal == scan_output[p].errors
                       errors == result'[p].errors
                       hashing == SubSeq(errors, Len(traversal) + 1, Len(errors))
                       failed == {i \in DOMAIN hash_results[p] :
                                     hash_results[p][i].hash.status = "Err"}
                   IN  /\ site'[p] = "complete"
                       /\ Len(errors) = Len(traversal) + Cardinality(failed)
                       /\ SubSeq(errors, 1, Len(traversal)) = traversal
                       /\ \A i \in DOMAIN files_to_hash[p] :
                            (i \in failed)
                                <=> (files_to_hash[p][i].path \in ErrorPaths(hashing))
                       /\ \A i \in failed :
                            files_to_hash[p][i]
                                \notin GroupedFiles(result'[p].duplicate_groups)]_vars
    /\ [][\A p \in Scans :
            (site[p] = "complete" /\ pc'[p] = "returned")
                => ret'[p] = Ok(result[p])]_vars

\* a scan has returned a ScanResult that lists a traversal error and then
\* the error of a file that could not be hashed
C14_Witness ==
    \E p \in Scans :
        /\ ret[p].status = "Ok"
        /\ ret[p].value.errors = << ScanErrorNew("b/locked", "walkdir"),
                                   ScanErrorNew("a/f1", "FILE_DISAPPEARED") >>

\* the paths of the items of the walk of the roots that are not readable
\* entries: the walk failed on them or their metadata cannot be read
FailedEntryPaths(root_paths) ==
    UNION {{WalkDir(root_paths[r])[k].path : k \in
               {k \in DOMAIN WalkDir(root_paths[r]) :
                    WalkDir(root_paths[r])[k].kind \in {"walk_error", "no_metadata"}}}
           : r \in DOMAIN root_paths}

\* C15 (as claimed): after a traversal that succeeded, every entry that
\* failed, a file whose metadata cannot be read included, is named by a
\* ScanError of the output, and the entries after it have been processed.
C15_EntryFailuresRecorded ==
    \A p \in Scans :
        pc[p] = "check_1"
            => /\ FailedEntryPaths(options[p])
                      \subseteq ErrorPaths(scan_output[p].errors)
               /\ \A r \in DOMAIN options[p] :
                     \A k \in DOMAIN WalkDir(options[p][r]) :
                        WalkDir(options[p][r])[k].kind = "file"
                            => \E f \in DOMAIN scan_output[p].files :
                                  scan_output[p].files[f].path
                                      = WalkDir(options[p][r])[k].path

\* the paths of the files below the roots
FilePaths(root_paths) ==
    UNION {{WalkDir(root_paths[r])[k].path : k \in
               {k \in DOMAIN WalkDir(root_paths[r]) :
                    WalkDir(root_paths[r])[k].kind = "file"}}
           : r \in DOMAIN root_paths}

\* C16: when some root of the list does not exist, at whatever position,
\* the traversal step fails and leaves the output without any file or
\* error, also of the roots listed before the missing one, and start_scan
\* returns PATH_NOT_FOUND; when every root exists it yields their files.
C16_MissingRootFailsBeforeWalk ==
    /\ [][\A p \in Scans :
            (pc[p] = "counting" /\ pc'[p] # "counting")
                => IF \E r \in DOMAIN options[p] : options[p][r] = "missing"
                   THEN /\ site'[p] = "traversal_error"
                        /\ scan_output'[p].files = << >>
                        /\ scan_output'[p].errors = << >>
                   ELSE /\ site'[p] = "none"
                        /\ {scan_output'[p].files[f].path :
                               f \in DOMAIN scan_output'[p].files}
                              = FilePaths(options[p])]_vars
    /\ [][\A p \in Scans :
            (site[p] = "traversal_error" /\ pc'[p] = "returned")
                => ret'[p] = Err("PATH_NOT_FOUND")]_vars

\* the traversal has failed on a list whose first root exists
C16_Witness ==
    \E p \in Scans :
        /\ options[p] = <<"a", "missing">>
        /\ site[p] = "traversal_error"
        /\ pc[p] = "finish_1"

\* the number of positions of the list seq that hold the value x
Count(seq, x) == Cardinality({i \in DOMAIN seq : seq[i] = x})

\* the files of the list that share their size with another file of the list
SharingSize(files) ==
    {i \in DOMAIN files : \E j \in DOMAIN files : j # i /\ files[j].size = files[i].size}

\* C17: for every list of files, every list of the mapping group_by_size
\* returns has at least 2 entries, all of the size that is its key, and the
\* lists together hold each file that shares its size with another file
\* exactly once and no other file; the flattened mapping that the Grouping
\* phase hands to the hasher holds exactly these files.
C17_GroupBySize ==
    \A p \in Scans :
        LET files == scan_output[p].files
            groups == group_by_size(files)
            total == Cardinality({<<s, i>> \in (DOMAIN groups) \X (1..Len(files)) :
                                     i <= Len(groups[s])})
        IN  /\ pc[p] = "grouping"
                  => /\ \A s \in DOMAIN groups :
                          /\ Len(groups[s]) >= 2
                          /\ \A k \in DOMAIN groups[s] : groups[s][k].size = s
                     /\ total = Cardinality(SharingSize(files))
                     /\ \A i \in DOMAIN files :
                          Cardinality({<<s, k>> \in (DOMAIN groups) \X (1..Len(files)) :
                                          k <= Len(groups[s]) /\ groups[s][k] = files[i]})
                              = IF i \in SharingSize(files) THEN 1 ELSE 0
            /\ pc[p] = "check_2"
                  => /\ Len(files_to_hash[p]) = Cardinality(SharingSize(files))
                     /\ \A i \in DOMAIN files :
                          Count(files_to_hash[p], files[i])
                              = IF i \in SharingSize(files) THEN 1 ELSE 0

\* the Grouping phase has kept a group of files and dropped a file of
\* unique size
C17_Witness ==
    \E p \in Scans :
        /\ pc[p] = "check_2"
        /\ Len(scan_output[p].files) = MaxFiles
        /\ Len(files_to_hash[p]) = MaxFiles - 1

\* the positions of the pairs that carry the digest h
Carrying(pairs, h) == {i \in DOMAIN pairs : pairs[i].hash.value = h}

\* C18: for every list of (file, digest) pairs, the groups find_duplicates
\* returns are one for each digest carried by at least 2 pairs and none for
\* any other digest, and the files of a group are the files of the pairs
\* with its digest, each once.
C18_GroupsAreSharedDigests ==
    [][\A p \in Scans :
         (pc[p] = "finalizing" /\ pc'[p] # "finalizing")
             => LET pairs == extract_successful_hashes(hash_results[p])
                    groups == result'[p].duplicate_groups
                IN  /\ \A h \in HashKeys(pairs) :
                         Cardinality({g \in DOMAIN groups : groups[g].hash = h})
                             = IF Cardinality(Carrying(pairs, h)) >= 2 THEN 1 ELSE 0
                    /\ \A g \in DOMAIN groups :
                         /\ groups[g].hash \in HashKeys(pairs)
                         /\ Len(groups[g].files)
                               = Cardinality(Carrying(pairs, groups[g].hash))
                         /\ \A i \in DOMAIN pairs :
                              Count(groups[g].files, pairs[i].file)
                                  = IF pairs[i].hash.value = groups[g].hash
                                    THEN 1 ELSE 0]_vars

\* find_duplicates has returned one group of two files for three pairs, the
\* third having a digest of its own
C18_Witness ==
    \E p \in Scans :
        /\ pc[p] = "finish_1"
        /\ result[p] # Pending
        /\ result[p].total_files_scanned = 3
        /\ Len(result[p].duplicate_groups) = 1
        /\ Len(result[p].duplicate_groups[1].files) = 2

\* C19: the groups of a ScanResult, as find_duplicates returned them, are
\* in descending order of wasted space, (files - 1) * size: each group
\* wastes at least as much as the one after it.
C19_SortedByWastedSpace ==
    \A p \in Scans :
        result[p] # Pending
            => LET groups == result[p].duplicate_groups
                   wasted(g) == (Len(groups[g].files) - 1) * groups[g].size
               IN  \A g \in 1..(Len(groups) - 1) : wasted(g) >= wasted(g + 1)

\* find_duplicates has returned two groups, the first wasting more
C19_Witness ==
    \E p \in Scans :
        /\ result[p] # Pending
        /\ Len(result[p].duplicate_groups) = 2
        /\ result[p].duplicate_groups[1].size = 2
        /\ result[p].duplicate_groups[2].size = 1
        /\ result[p].duplicate_groups[1].hash = Md5(2)

\* C20 (as claimed): find_duplicates is deterministic: on the list of pairs
\* an invocation is about to finalize it can return only one list of groups.
C20_Deterministic ==
    \A p \in Scans :
        pc[p] = "finalizing"
            => LET pairs == extract_successful_hashes(hash_results[p])
               IN  Cardinality({find_duplicates(pairs, order) :
                                   order \in IterationOrders(HashKeys(pairs))}) = 1

\* the call examined on its own has returned
Returned(fn) == call # None /\ call.fn = fn /\ reply # Pending

\* C21 (as claimed): for every DuplicateGroup and every 64-bit size,
\* wasted_space returns 0 when the group has 0 or 1 files and otherwise
\* returns (number of files - 1) * size, the product in full.
C21_WastedSpace ==
    Returned("wasted_space")
        => LET len == Len(call.group.files)
           IN  /\ reply.status = "Ok"
               /\ <<0>> \o reply.value =
                     IF len <= 1 THEN <<0, 0, 0, 0, 0>>
                     ELSE FullMul(len - 1, call.group.size)

\* C22 (as claimed): every DuplicateGroup of a ScanResult the pipeline
\* produces has at least 2 files, and every file in it has the digest that
\* is the group's hash and a recorded size equal to the group's size.
C22_GroupsShareSizeAndDigest ==
    \A p \in Scans :
        result[p] # Pending
            => \A g \in DOMAIN result[p].duplicate_groups :
                 LET group == result[p].duplicate_groups[g]
                 IN  /\ Len(group.files) >= 2
                     /\ \A k \in DOMAIN group.files :
                          /\ hash_file(group.files[k].path, TRUE) = Ok(group.hash)
                          /\ group.files[k].size = group.size

\* the extension matches compares: the lower-cased text after the last dot
\* of the file name
TextExtension(path) ==
    LET os_ext == extension(path)
        str_ext == IF os_ext.some THEN to_str(os_ext.value) ELSE Nothing
    IN  IF str_ext.some THEN Some(to_lowercase(str_ext.value)) ELSE Nothing

\* C23: matches(path, size) is true exactly when the size is at least
\* min_size if one is set, the lower-cased extension is not in the exclude
\* set, and, if an include set is configured, the extension is in it when
\* present and the empty string is in it when absent.  With nothing
\* configured it is true for every path and size.
C23_Matches ==
    Returned("matches")
        => LET filter == build_filter(call.options)
               ext == TextExtension(call.path)
               size_ok == filter.min_size.some => call.size >= filter.min_size.value
               excluded == /\ filter.exclude_extensions.some
                           /\ ext.some
                           /\ ext.value \in filter.exclude_extensions.value
               included == filter.include_extensions.some
                              => IF ext.some
                                 THEN ext.value \in filter.include_extensions.value
                                 ELSE << >> \in filter.include_extensions.value
           IN  /\ reply = Ok(size_ok /\ ~excluded /\ included)
               /\ ~has_restrictions(filter) => reply = Ok(TRUE)

\* matches has returned false for a file whose extension is in both sets
C23_Witness ==
    /\ Returned("matches")
    /\ LET filter == build_filter(call.options)
           ext == TextExtension(call.path)
       IN  /\ ~filter.min_size.some
           /\ filter.exclude_extensions.some
           /\ filter.include_extensions.some
           /\ ext.some
           /\ ext.value \in filter.exclude_extensions.value
           /\ ext.value \in filter.include_extensions.value
           /\ reply = Ok(FALSE)

\* two spellings of one extension: they differ in letter case and in a
\* leading dot only
SameExtension(e1, e2) ==
    LET undotted(e) == IF e # << >> /\ Head(e) = "." THEN Tail(e) ELSE e
    IN  /\ Len(undotted(e1)) = Len(undotted(e2))
        /\ \A i \in DOMAIN undotted(e1) :
             Lower(undotted(e1)[i]) = Lower(undotted(e2)[i])

Respelled(list1, list2) ==
    /\ Len(list1) = Len(list2)
    /\ \A i \in DOMAIN list1 : SameExtension(list1[i], list2[i])

\* two file names that differ in the letter case of the extension only
SameButExtensionCase(n1, n2) ==
    /\ Len(n1) = Len(n2)
    /\ \A i \in DOMAIN n1 :
         IF \E j \in i..Len(n1) : n1[j] = "." \/ n2[j] = "."
         THEN n1[i] = n2[i]
         ELSE Lower(n1[i]) = Lower(n2[i])

\* C24: the filter configuration is normalised.  Respelling the configured
\* extensions in another letter case, with or without a leading dot, gives
\* the same matches result; so does another letter case of the file's
\* extension; and an empty include or exclude list gives the filter, and so
\* the has_restrictions and the matches, of that list not being configured.
C24_Normalised ==
    Returned("matches")
        => LET opts == call.options
               with_include(l) == [opts EXCEPT !.include_extensions = l]
               with_exclude(l) == [opts EXCEPT !.exclude_extensions = l]
               answer(o, path) == Ok(matches(build_filter(o), path, call.size))
           IN  /\ opts.include_extensions.some
                     => \A l \in ExtensionLists :
                          Respelled(opts.include_extensions.value, l)
                              => answer(with_include(Some(l)), call.path) = reply
               /\ opts.exclude_extensions.some
                     => \A l \in ExtensionLists :
                          Respelled(opts.exclude_extensions.value, l)
                              => answer(with_exclude(Some(l)), call.path) = reply
               /\ \A n \in FileNames :
                     SameButExtensionCase(call.path, n) => answer(opts, n) = reply
               /\ opts.include_extensions = Some(<< >>)
                     => /\ build_filter(opts) = build_filter(with_include(Nothing))
                        /\ answer(with_include(Nothing), call.path) = reply
               /\ opts.exclude_extensions = Some(<< >>)
                     => /\ build_filter(opts) = build_filter(with_exclude(Nothing))
                        /\ answer(with_exclude(Nothing), call.path) = reply
               /\ ( /\ ~opts.min_file_size.some
                    /\ opts.include_extensions \in {Nothing, Some(<< >>)}
                    /\ opts.exclude_extensions \in {Nothing, Some(<< >>)} )
                     => ~has_restrictions(build_filter(opts))

\* an include list spelled in upper case with a leading dot has accepted a
\* file whose extension is spelled in lower case
C24_Witness ==
    /\ Returned("matches")
    /\ call.options.include_extensions = Some(<< <<".", "J">> >>)
    /\ call.options.exclude_extensions = Nothing
    /\ call.path = <<"p", ".", "j">>
    /\ reply = Ok(TRUE)

\* the files under the roots root_paths, as the walk records them
ScannedFiles(root_paths) ==
    LET files == WalkAll(root_paths, ScanOutputNew).files
    IN  {files[i] : i \in DOMAIN files}

\* the sets of two or more scanned files with byte-identical content
IdenticalSets(root_paths) ==
    LET files == ScannedFiles(root_paths)
        same(f) == {g \in files : ContentOf(g.path) = ContentOf(f.path)}
    IN  {same(f) : f \in {g \in files : Cardinality(same(g)) >= 2}}

\* the sum over the groups of (members - 1) * size
RECURSIVE Reclaimable(_)
Reclaimable(groups) ==
    IF groups = << >> THEN 0
    ELSE (Len(Head(groups).files) - 1) * Head(groups).size
             + Reclaimable(Tail(groups))

FilesOf(group) == {group.files[k] : k \in DOMAIN group.files}

\* C25: end to end, when every scanned file is readable and unchanged during
\* the scan, the ScanResult has exactly one duplicate group for each set of
\* 2 or more files with identical content and no group for any other file,
\* and total_wasted_space is the sum over the groups of (members - 1) * size.
C25_EndToEnd ==
    \A p \in Scans :
        ( /\ result[p] # Pending
          /\ \A f \in ScannedFiles(options[p]) : f.path \notin Overwritten )
            => LET groups == result[p].duplicate_groups
               IN  /\ {FilesOf(groups[g]) : g \in DOMAIN groups}
                         = IdenticalSets(options[p])
                   /\ Len(groups) = Cardinality(IdenticalSets(options[p]))
                   /\ \A g \in DOMAIN groups :
                         Len(groups[g].files) = Cardinality(FilesOf(groups[g]))
                   /\ result[p].total_wasted_space = Reclaimable(groups)

\* a scan of two sets of identical files and of a third file that has the
\* size, and not the content, of one of the sets has produced its result
C25_Witness ==
    \E p \in Scans :
        /\ result[p] # Pending
        /\ options[p] = <<"a", "c">>
        /\ Len(result[p].duplicate_groups) = 2
        /\ result[p].total_wasted_space = 5
        /\ \A g \in DOMAIN result[p].duplicate_groups :
              FileEntryNew("c/g3", 4) \notin FilesOf(result[p].duplicate_groups[g])

\* the paths of the failed entries of a DeleteResult
FailedPaths(failed) == [i \in DOMAIN failed |-> failed[i].path]

InSeq(seq, x) == \E i \in DOMAIN seq : seq[i] = x

C27_Recoverable ==
    Returned("is_recoverable")
        => /\ call.error \in {"PERMISSION_DENIED", "FILE_DISAPPEARED", "IO_ERROR"}
                => reply = Ok(TRUE)
           /\ call.error \in {"PATH_NOT_FOUND", "SCAN_IN_PROGRESS",
                               "NO_ACTIVE_SCAN", "CANCELLED"}
                => reply = Ok(FALSE)

(***************************************************************************)
(* The session controller under observation: start_scan and cancel_scan    *)
(* invocations as in Spec, on roots without duplicate candidates, with     *)
(* the scan ids start_scan logs kept in scan_log and, for each             *)
(* cancel_scan, the invocation that held the session when request_cancel   *)
(* loaded is_scanning kept in tested.                                      *)
(***************************************************************************)
SessionOptionSet == { <<"b">>, <<"missing">> }

\* the invocation that holds the session, 0 when none does
Holder == IF \E p \in Scans : InFlight(p) THEN CHOOSE p \in Scans : InFlight(p) ELSE 0

\* debug!("Scan started with ID: {}", scan_id)
LogScanId(p) == scan_log' = Append(scan_log, scan_id[p])

SessionNext ==
    \/ \E p \in Scans :
         \/ \E opts \in SessionOptionSet : StartScan(p, opts)
         \/ TryStartScanWriteId(p)
         \/ TryStartScanClearCancel(p) /\ LogScanId(p) /\ UNCHANGED tested
         \/ ScanDirectories(p)
         \/ \E k \in 1..3 : CheckCancel(p, k)
         \/ GroupBySize(p)
         \/ HashFilesJoin(p)
         \/ Finalize(p)
         \/ FinishScanStoreScanning(p)
         \/ FinishScanStoreCancel(p)
         \/ FinishScanWriteId(p)
         \/ EmitScanError(p)
         \/ ReturnError(p)
    \/ \E c \in Cancels :
         \/ /\ RequestCancelLoad(c)
            /\ tested' = [tested EXCEPT ![c] = Holder]
            /\ UNCHANGED scan_log
         \/ RequestCancelStore(c)

SessionSpec == Init /\ [][SessionNext]_vars

\* C28 (as claimed): no two successful try_start_scan calls return the same
\* scan id, however quickly they follow each other.
C28_UniqueScanIds ==
    \A i, j \in DOMAIN scan_log : i # j => scan_log[i] # scan_log[j]

\* C29 (as claimed): while an invocation is in its phases, after its
\* try_start_scan has returned, the cancellation flag is set only if a
\* request_cancel that found this invocation holding the session has stored
\* it: no checkpoint observes a cancellation requested of an earlier session.
C29_NoStaleCancel ==
    \A p \in Scans :
        (InPhase(p) /\ cancel_requested)
            => \E c \in Cancels :
                 tested[c] = p /\ cpc[c] = "returned" /\ cresult[c] = Ok(<< >>)

\* C30: in every ScanResult, total_duplicates_found is the sum of the file
\* counts of the duplicate groups and total_wasted_space is the sum of their
\* wasted_space, the values calculate_total_duplicates and
\* calculate_total_wasted_space return for the group list, and
\* total_files_scanned is the number of files the traversal emitted.
C30_Totals ==
    \A p \in Scans :
        result[p] # Pending
            => LET groups == result[p].duplicate_groups
                   counts[i \in 0..Len(groups)] ==
                       IF i = 0 THEN 0 ELSE counts[i - 1] + Len(groups[i].files)
                   wasted[i \in 0..Len(groups)] ==
                       IF i = 0 THEN 0 ELSE wasted[i - 1] + wasted_space(groups[i])
               IN  /\ result[p].total_duplicates_found = counts[Len(groups)]
                   /\ result[p].total_duplicates_found
                         = calculate_total_duplicates(groups)
                   /\ result[p].total_wasted_space = wasted[Len(groups)]
                   /\ result[p].total_wasted_space
                         = calculate_total_wasted_space(groups)
                   /\ result[p].total_files_scanned
                         = Len(WalkAll(options[p], ScanOutputNew).files)

\* a ScanResult with two groups of two files each, of a scan of six files
C30_Witness ==
    \E p \in Scans :
        /\ result[p] # Pending
        /\ Len(result[p].duplicate_groups) = 2
        /\ result[p].total_duplicates_found = 4
        /\ result[p].total_files_scanned = 6

(***************************************************************************)
(* AppState on its own, as the tests of state.rs use it: threads call      *)
(* try_start_scan, request_cancel and the read operations is_scanning,     *)
(* is_cancel_requested and current_scan_id, and nothing finishes the scan. *)
(***************************************************************************)
StateOptionSet == { <<"a">> }

\* what a read operation leaves alone
Unread ==
    <<clock, pc, locals, cancels, worker, library, observed, progress_count,
      callback_counts>>

\* AppState::is_scanning, called by another thread
ReadIsScanning ==
    /\ read' = <<"is_scanning", is_scanning>>
    /\ UNCHANGED <<session, Unread>>

\* AppState::is_cancel_requested, called by another thread
ReadIsCancelRequested ==
    /\ read' = <<"is_cancel_requested", cancel_requested>>
    /\ UNCHANGED <<session, Unread>>

\* a current_scan_id that takes the id out of the lock (Option::take)
ReadCurrentScanIdTaking ==
    /\ read' = <<"current_scan_id", current_scan_id>>
    /\ current_scan_id' = None
    /\ UNCHANGED <<is_scanning, cancel_requested, Unread>>

\* AppState::current_scan_id, called by another thread
ReadCurrentScanId ==
    /\ read' = <<"current_scan_id", current_scan_id>>
    /\ UNCHANGED <<session, Unread>>

StateNext ==
    \/ \E p \in Scans :
         \/ \E opts \in StateOptionSet : StartScan(p, opts)
         \/ TryStartScanWriteId(p)
         \/ TryStartScanClearCancel(p) /\ LogScanId(p) /\ UNCHANGED tested
    \/ \E c \in Cancels :
         \/ /\ RequestCancelLoad(c)
            /\ tested' = [tested EXCEPT ![c] = Holder]
            /\ UNCHANGED scan_log
         \/ RequestCancelStore(c)
    \/ ReadIsScanning
    \/ ReadIsCancelRequested
    \/ ReadCurrentScanId

StateSpec == Init /\ [][StateNext]_vars

HashedLists ==
    {[i \in 1..n |-> FileEntryNew(<<"file", i>>, 1)] : n \in 0..MaxHashed}

HasherInit ==
    /\ \E files \in HashedLists :
         /\ files_to_hash = [p \in Scans |-> IF p = 1 THEN files ELSE << >>]
         /\ hash_results = [p \in Scans |->
                               IF p = 1 THEN [i \in DOMAIN files |-> Pending]
                               ELSE << >>]
         /\ scan_output = [p \in Scans |->
                              IF p = 1 THEN [files |-> files, errors |-> << >>]
                              ELSE ScanOutputNew]
    /\ InitAt("hashing", <<Progress("Counting"), Progress("Grouping")>>)

\* callback(count), the callback being the one of the test:
\* count_clone.store(count)
StoreCount(p, i) ==
    /\ WorkerAt(p, i, "now")
    /\ callback_counts' = Append(callback_counts, worker[p][i].count)
    /\ progress_count' = worker[p][i].count
    /\ WorkerDone(p, i)
    /\ UNCHANGED <<session, clock, pc, locals, cancels, library, observed, read>>

HasherNext ==
    \E p \in {1} :
         \/ \E i \in DOMAIN files_to_hash[p] :
              \/ \E readable \in BOOLEAN : WorkerHash(p, i, readable)
              \/ StoreCount(p, i)
         \/ HashFilesJoin(p)

HasherSpec == HasherInit /\ [][HasherNext]_vars

\* the number of files of invocation p whose outcome is determined
Determined(p) == Len(hash_results[p]) - Cardinality(Unhashed(p))

\* C32: hash_files_parallel calls the callback once for each file, after
\* the outcome of that file is determined, be it a digest or an error, and
\* never twice with the same count: at every moment the calls made and the
\* calls about to be made are one per determined file and carry different
\* counts from 1 to the number of determined files, and when
\* hash_files_parallel has returned on n files the callback has been
\* called n times, with each of the counts 1..n once.
C32_CallbackCounts ==
    \A p \in Scans :
        pc[p] \in {"hashing", "check_3"}
            => LET n == Len(files_to_hash[p])
                   made == {callback_counts[k] : k \in DOMAIN callback_counts}
                   due == {worker[p][i].count : i \in DOMAIN worker[p]}
               IN  /\ Cardinality(made) = Len(callback_counts)
                   /\ Cardinality(due) = Cardinality(DOMAIN worker[p])
                   /\ made \cap due = {}
                   /\ made \cup due = 1..Determined(p)
                   /\ \A i \in DOMAIN worker[p] :
                         hash_results[p][i] # Pending
                             /\ hash_results[p][i].hash.status \in {"Ok", "Err"}
                   /\ pc[p] = "check_3"
                         => /\ Len(callback_counts) = n
                            /\ made = 1..n

\* hash_files_parallel has returned on three files, one of which failed,
\* having called the callback with 2, then 1, then 3
C32_Witness ==
    /\ pc[1] = "check_3"
    /\ callback_counts = <<2, 1, 3>>
    /\ \E i \in DOMAIN hash_results[1] : hash_results[1][i].hash.status = "Err"

\* C33 (as claimed): when the callback stores the count it is given into a
\* shared counter, the counter holds the number of input files when
\* hash_files_parallel returns.
C33_ProgressReachesN ==
    \A p \in Scans :
        pc[p] = "check_3" => progress_count = Len(files_to_hash[p])

\* the terminal events, and those invocation p has emitted
TerminalEvents == {Signal(SCAN_FINISHED), Signal(SCAN_CANCELLED), Signal(SCAN_ERROR)}
Terminals(p) == SelectSeq(events[p], LAMBDA e : e \in TerminalEvents)

\* the terminal event that goes with a return value of start_scan
TerminalOf(value) ==
    CASE value.status = "Ok" -> Signal(SCAN_FINISHED)
      [] value = Err("CANCELLED") -> Signal(SCAN_CANCELLED)
      [] OTHER -> Signal(SCAN_ERROR)

\* C34: a start_scan that acquired the session emits one terminal event
\* before it returns and nothing after it: an invocation never has more
\* than one terminal event among its events, the terminal event is the last
\* of them, and when the invocation returns it has emitted exactly the
\* terminal event of its return value: scan_finished for Ok(result),
\* scan_cancelled for the Cancelled error, scan_error for the traversal
\* error.
C34_OneTerminalEvent ==
    /\ [](\A p \in Scans :
            /\ Len(Terminals(p)) <= 1
            /\ Len(Terminals(p)) = 1 => Last(events[p]) \in TerminalEvents)
    /\ [][\A p \in Scans :
            (pc[p] \notin {"idle", "returned"} /\ pc'[p] = "returned")
                => /\ Terminals(p) = <<TerminalOf(ret'[p])>>
                   /\ Last(events[p]) = TerminalOf(ret'[p])
                   /\ ret'[p].status = "Ok" => ret'[p].value = result[p]
                   /\ ret'[p].status = "Err"
                         => ret'[p].code \in {"CANCELLED", "PATH_NOT_FOUND"}]_vars

\* a scan cancelled after the hashing has emitted Hashing progress and then
\* scan_cancelled, and is about to return
C34_Witness ==
    \E p \in Scans :
        /\ pc[p] = "finish_3"
        /\ site[p] = CancelSite(3)
        /\ \E k \in DOMAIN events[p] : events[p][k] = Progress("Hashing")
        /\ Last(events[p]) = Signal(SCAN_CANCELLED)

\* C35 (as claimed): while a session is in flight, from the return of its
\* try_start_scan until its own finish_scan begins, is_scanning is true and
\* current_scan_id is the id try_start_scan returned to it, the last id
\* logged, whatever the previous session's finish_scan is doing.
C35_InFlightSessionHasItsId ==
    \A p \in Scans :
        (InPhase(p) \/ pc[p] = "finish_1")
            => /\ is_scanning
               /\ current_scan_id = Last(scan_log)

\* C36 (as claimed): in the progress callback the subtraction now - last
\* never underflows: the last_emit a worker has loaded is never greater
\* than the time that worker sampled before the load.
C36_NoUnderflow ==
    \A p \in Scans : \A i \in DOMAIN worker[p] :
        worker[p][i].at \in {"store", "emit"}
            => worker[p][i].last <= worker[p][i].now

(***************************************************************************)
(* One start_scan invocation from end to end on root lists that name a     *)
(* directory more than once: a root listed twice, and a root listed        *)
(* together with a directory inside it.                                    *)
(***************************************************************************)
OverlapOptionSet == { <<"a", "a">>, <<"e", "e/n">>, <<"e/n", "e">> }

OverlapNext ==
    \E p \in {1} :
         \/ \E opts \in OverlapOptionSet : StartScan(p, opts)
         \/ TryStartScanWriteId(p)
         \/ TryStartScanClearCancel(p) /\ UNCHANGED observed
         \/ ScanDirectories(p)
         \/ \E k \in 1..3 : CheckCancel(p, k)
         \/ GroupBySize(p)
         \/ \E i \in DOMAIN files_to_hash[p] : HashFile(p, i, TRUE)
         \/ HashFilesJoin(p)
         \/ Finalize(p)
         \/ FinishScanStoreScanning(p)
         \/ FinishScanStoreCancel(p)
         \/ FinishScanWriteId(p)

OverlapSpec == Init /\ [][OverlapNext]_vars

\* no two entries of the list of files have the same path
DistinctPaths(files) ==
    \A i, j \in DOMAIN files : i # j => files[i].path # files[j].path

\* C37 (as claimed): for every list of roots, a root listed twice or inside
\* another root included, no path appears more than once among the files
\* the traversal returns, and no duplicate group of the ScanResult lists a
\* path twice.
C37_PathsAreUnique ==
    \A p \in Scans :
        /\ DistinctPaths(scan_output[p].files)
        /\ result[p] # Pending
              => \A g \in DOMAIN result[p].duplicate_groups :
                    DistinctPaths(result[p].duplicate_groups[g].files)

\* C38 (as claimed): when an invocation has emitted its terminal event it
\* no longer holds the session, so no start_scan is turned away with
\* ScanInProgress by a scan that has already emitted its terminal event.
C38_ReleasedBeforeTerminalEvent ==
    /\ [](\A p \in Scans : Terminals(p) # << >> => ~InFlight(p))
    /\ [][\A q \in Scans :
            (pc[q] = "idle" /\ pc'[q] = "returned")
                => ~\E p \in Scans : InFlight(p) /\ Terminals(p) # << >>]_vars

====
